---- MODULE Spec2Model ----
(***************************************************************************)
(* Hercules SFMS gateway (server/gateway-files): the activation lifecycle, *)
(* the collection thread and its protocol handlers, the write-ahead        *)
(* data_buffer with its uploader and its compactor, graceful shutdown and  *)
(* process restart, modelled from gateway.py; the recovery supervisor of   *)
(* service_manager.py; the configuration store of gateway_db.py.           *)
(***************************************************************************)
EXTENDS Integers, Sequences, FiniteSets, TLC

\* ---------------------------------------------------------------- bounds
\* Largest value of the wall clock (time.time(), in abstract ticks).
MaxClock == 2
\* Number of rows ever inserted into data_buffer (the AUTOINCREMENT ids).
MaxRows == 3
\* Stand-in for the LIMIT 1000 of upload_data's SELECT, scaled to the model.
BatchLimit == 2
\* Stand-in for timedelta(days=7) of cleanup_loop, in clock ticks.
Retention == 1
\* Stand-in for the OFFSET 100000 of the limit_history_size trigger.
HistoryLimit == 2
\* Number of rows ever inserted into tag_history.
MaxHistory == 4
\* Number of rows ever inserted into config_audit.
MaxAudit == 2
\* Calls on one handler that counted in its statistics.
MaxCalls == 2

\* ------------------------------------------------------------- constants
\* Python's None; a dictionary key that is missing.
None == "None"
\* Python truthiness of an Optional[str]: None and "" are falsy.
Truthy(s) == s \notin {None, ""}

\* self.max_restarts of HerculesGatewayService.
max_restarts == 5
\* self.restart_window (3600 s), in clock ticks: shorter than the run of the
\* model, so that failures can lie further apart than one window.
restart_window == MaxClock - 1
\* time.time() = 0, the initial last_restart_time: the epoch, long before the
\* service starts at clock 0.
Epoch == 0 - (restart_window + 1)

\* One entry of the 'plcs' list of the portal's configuration.
Plc(id, enabled, protocol, conn, tags) ==
    [id |-> id, enabled |-> enabled, protocol |-> protocol, conn |-> conn,
     tags |-> tags]

\* PLC lists the portal's config endpoint may serve: one enabled PLC, with
\* one active tag or with two, scanned in list order.
OneTagPlcs == << Plc("plc-1", TRUE, "modbus", "a", <<"t-1">>) >>
TwoTagPlcs == << Plc("plc-1", TRUE, "modbus", "a", <<"t-1", "t-2">>) >>

\* Two PLCs; the same with the first one's connection_config changed; with the
\* first one removed; with a first entry that has no 'protocol' key.
TwoPlcs == << Plc("plc-1", TRUE, "modbus", "a", <<"t-1">>),
              Plc("plc-2", TRUE, "modbus", "a", <<"u-1">>) >>
ChangedPlcs == << Plc("plc-1", TRUE, "modbus", "b", <<"t-1">>),
                  Plc("plc-2", TRUE, "modbus", "a", <<"u-1">>) >>
RemovedPlcs == << Plc("plc-2", TRUE, "modbus", "a", <<"u-1">>) >>
MalformedPlcs == << Plc("plc-0", TRUE, None, "a", <<"s-1">>),
                    Plc("plc-2", TRUE, "modbus", "a", <<"u-1">>) >>
PortalConfigs == {TwoPlcs, ChangedPlcs, RemovedPlcs, MalformedPlcs}

PlcIds == {"plc-0", "plc-1", "plc-2"}

\* The PLC a tag id belongs to.
OwnerOf(tag) ==
    CASE tag = "u-1" -> "plc-2"
      [] tag = "s-1" -> "plc-0"
      [] OTHER -> "plc-1"

\* The keys of self.protocol_handlers.
ProtocolHandlers == {"modbus", "modbus-tcp", "s7", "ethernet-ip", "opcua"}

\* Credentials the activation endpoint may hand out in a 200 response.
PortalApiKeys == {"", "key-1"}
PortalGatewayId == "gw-42"

\* Outcomes of a portal HTTP request: its status code, or an exception
\* (timeout, connection refused) raised by requests.
HttpOutcomes == {"200", "503", "exception"}

\* The threads that execute upload_data: the DataUpload thread's loop and the
\* main thread inside shutdown().
Executors == {"loop", "final"}

\* Difference between datetime.now() (local time, the DELETE's parameter) and
\* CURRENT_TIMESTAMP (UTC, the created_at column), in clock ticks.
TzSkews == {-1, 0, 1}

VARIABLES
    clock,        \* time.time() / datetime.now() / CURRENT_TIMESTAMP
    main,         \* position of the main thread in run()
    running,      \* self.running
    api_key,      \* self.api_key
    gateway_id,   \* self.gateway_id
    endpoints,    \* self.endpoints: "empty" ({}) or "discovered"
    keyring,      \* the platform keyring, service "HerculesGateway"
    plc_configs,  \* self.plc_configs
    plc_handlers, \* self.plc_handlers: PLC id -> the configuration of its handler
    data_buffer,  \* table data_buffer of buffer.db: a set of rows
    next_id,      \* the next AUTOINCREMENT id of data_buffer
    scan_list,    \* collect_data: the list object its for loop iterates
    scan_plc,     \* collect_data: 0 when not in a pass, else index of the PLC
    scan,         \* collect_data: 0 when not reading, else index of the tag to read
    data_point,   \* collect_data: the data point captured and not yet buffered
    data_queue,   \* self.data_queue: the number of data points it holds
    upc,          \* per executor: position in upload_data / the loop's sleep
    batch,        \* per executor: the rows of the payload it built
    response,     \* per executor: what requests.post returned or raised
    restart_count,     \* HerculesGatewayService.restart_count
    last_restart_time, \* HerculesGatewayService.last_restart_time
    gateway_config,    \* gateway_config.db: row id = 1 of gateway_config
    plc_devices,       \* gateway_config.db: table plc_devices, id -> row
    tag_history,       \* gateway_config.db: table tag_history, a set of rows
    hist_id,           \* the next AUTOINCREMENT id of tag_history
    tag_definitions,   \* gateway_config.db: table tag_definitions, id -> row
    config_audit,      \* gateway_config.db: table config_audit, in id order
    restored,          \* a second gateway_config.db, the target of an import
    portal,       \* the portal: "flaky" (any outcome) or "up" (200)
    portal_plcs,  \* the PLC list the config endpoint serves
    stalled,      \* the PLCs whose read calls do not return at present
    acked,        \* history: ids contained in a data POST answered 200
    failed,       \* history: ids of pending rows whose last POST ended otherwise
    acked_ts,     \* history: largest timestamp of a sample answered 200
    carried,      \* history: the failed ids at the last restart, still pending
    rejected,     \* history: an activation POST of this service was answered 4xx
    failures,     \* history: the times of this service's handle_failure calls
    instances,    \* history: PLC id -> handlers constructed by this process
    \* ---- one handler object of protocols/ and the PLC behind it
    driver,       \* the handler: its class, self.connected, self.statistics
    link,         \* environment: TRUE while the PLC can be reached
    call,         \* history: the last call made on the handler or the store
    poll,         \* the collection loop's visits of the handler's PLC
    \* ---- the push channel
    ws,           \* self.ws: "none" (None), or a WebSocketApp "open" or "closed"
    on_close      \* the on_close callback: "idle", in its "sleep", or "checked"

vars == << clock, main, running, api_key, gateway_id, endpoints, keyring,
           plc_configs, plc_handlers, data_buffer, next_id, scan_list,
           scan_plc, scan, data_point, data_queue, upc, batch, response,
           restart_count,
           last_restart_time, gateway_config, plc_devices, tag_history,
           hist_id, tag_definitions, config_audit, restored, portal,
           portal_plcs, stalled, acked, failed, acked_ts,
           carried, rejected, failures, instances, driver, link, call,
           poll, ws, on_close >>

\* ------------------------------------------------------------ data_buffer

Min(a, b) == IF a <= b THEN a ELSE b
Max(a, b) == IF a >= b THEN a ELSE b

\* The rows with uploaded = 0.
Pending(buf) == {r \in buf : ~r.uploaded}

PendingIds(buf) == {r.id : r \in Pending(buf)}

Ids(rows) == {rows[i].id : i \in 1..Len(rows)}


\* Mutant of InitDatabase: the table is dropped and created again.
InitDatabaseRecreated(buf) == {}

\* CREATE TABLE IF NOT EXISTS / CREATE INDEX IF NOT EXISTS: an existing table
\* keeps its rows.
InitDatabase(buf) == buf

\* INSERT INTO data_buffer (gateway_id, tag_id, value, quality, timestamp):
\* id from AUTOINCREMENT, uploaded DEFAULT 0, created_at DEFAULT
\* CURRENT_TIMESTAMP.
InsertRow(buf, id, gw, point, now) ==
    buf \cup {[id |-> id, gateway_id |-> gw, tag_id |-> point.tag_id,
               timestamp |-> point.timestamp, uploaded |-> FALSE,
               created_at |-> now]}


\* Mutant of CaptureTimestamp: the millisecond count wraps in a narrow integer.
CaptureTimestampWrapped(now) == now % 2

\* 'timestamp': int(time.time() * 1000), taken when the value is captured.
CaptureTimestamp(now) == now


\* Mutant of Before: ORDER BY timestamp DESC.
BeforeDescending(a, b) ==
    \/ a.timestamp > b.timestamp
    \/ a.timestamp = b.timestamp /\ a.id > b.id

\* ORDER BY timestamp ASC, served by idx_uploaded(uploaded, timestamp): rows
\* of equal timestamp come in rowid order.
Before(a, b) ==
    \/ a.timestamp < b.timestamp
    \/ a.timestamp = b.timestamp /\ a.id < b.id

RECURSIVE OrderBy(_)
OrderBy(S) ==
    IF S = {} THEN << >>
    ELSE LET m == CHOOSE x \in S : \A y \in S \ {x} : Before(x, y)
         IN  << m >> \o OrderBy(S \ {m})


\* Mutant of Limit: the LIMIT clause is missing.
LimitMissing(rows, n) == rows

\* LIMIT n.
Limit(rows, n) == SubSeq(rows, 1, Min(n, Len(rows)))

\* SELECT id, tag_id, value, quality, timestamp FROM data_buffer
\* WHERE uploaded = 0 ORDER BY timestamp ASC LIMIT 1000.
SelectBatch(buf) == Limit(OrderBy(Pending(buf)), BatchLimit)


\* Mutant of ShouldPost: the empty batch is POSTed like any other.
ShouldPostAlways(rows) == TRUE

\* if not rows: return True, before any request is built.
ShouldPost(rows) == rows # << >>


\* Mutant of ResponseOk: any response that is not an exception counts.
ResponseOkAnyStatus(outcome) == outcome # "exception"

\* if response.status_code == 200.
ResponseOk(outcome) == outcome = "200"


\* Mutant of MarkUploaded: the UPDATE has no WHERE clause.
MarkUploadedEveryRow(buf, ids) == {[r EXCEPT !.uploaded = TRUE] : r \in buf}

\* Mutant of MarkUploaded: the UPDATE is never committed.
MarkUploadedUncommitted(buf, ids) == buf

\* UPDATE data_buffer SET uploaded = 1 WHERE id IN (batch_ids); commit.
MarkUploaded(buf, ids) ==
    {IF r.id \in ids THEN [r EXCEPT !.uploaded = TRUE] ELSE r : r \in buf}


\* Mutant of OnUploadFailure: a failed batch is dropped from the buffer.
OnUploadFailureDrop(buf, ids) == {r \in buf : r.id \notin ids}

\* The non-200 and the exception branch of upload_data touch no row.
OnUploadFailure(buf, ids) == buf


\* Mutant of CleanupVictim: the DELETE tests only the age.
CleanupVictimByAge(r, now) == r.created_at < now - Retention

\* DELETE FROM data_buffer WHERE uploaded = 1 AND created_at < seven_days_ago.
CleanupVictim(r, now) == r.uploaded /\ r.created_at < now - Retention


\* Mutant of HasStoredCredentials: the stored values are never accepted.
HasStoredCredentialsIgnored(k, i) == FALSE

\* if stored_key and stored_id.
HasStoredCredentials(k, i) == Truthy(k) /\ Truthy(i)

\* -------------------------------------------------------- protocol handlers

\* No entry of self.plc_handlers.
NoHandler == [protocol |-> None, conn |-> None]

\* What get_or_create_handler does: "existing" returns the stored handler,
\* "raise" is the KeyError of plc_config['protocol'], "none" an unknown
\* protocol, "construct" the call of the handler class.
\* Mutant of HandlerLookup: the stored handler is not looked up.
HandlerLookupSkipped(handlers, plc) ==
    IF plc.protocol = None THEN "raise"
    ELSE IF plc.protocol \notin ProtocolHandlers THEN "none"
    ELSE "construct"

HandlerLookup(handlers, plc) ==
    IF handlers[plc.id] # NoHandler THEN "existing"
    ELSE IF plc.protocol = None THEN "raise"
    ELSE IF plc.protocol \notin ProtocolHandlers THEN "none"
    ELSE "construct"

\* handler_class(plc_config): the handler keeps the configuration it was
\* constructed from.
NewHandler(plc) == [protocol |-> plc.protocol, conn |-> plc.conn]

\* The index after i in the list the pass iterates, 0 at its end.
NextPlc(list, i) == IF i < Len(list) THEN i + 1 ELSE 0

\* The list object the for loop holds, while the pass lasts.
Iterated(list, i) == IF i = 0 THEN << >> ELSE list

\* The ids of the enabled entries of a PLC list.
EnabledIds(list) == {list[i].id : i \in {j \in 1..Len(list) : list[j].enabled}}

\* ---------------------------------------------------------- gateway_db.py

\* One entry of the 'plcs' list handed to sync_with_portal or upsert_plc;
\* local_only is << >> when the entry has no such key, else << value >>, and
\* so is portal_sync; 'tags' is the list sync_with_portal reads.
DbPlc(id, conn, local_only) ==
    [id |-> id, conn |-> conn, local_only |-> local_only,
     portal_sync |-> << >>, tags |-> << >>]

\* A tag dictionary handed to upsert_tag; plc_id, portal_sync and local_only
\* are << >> when the key is missing.
DbTag(id, plc_id, address, portal_sync, local_only) ==
    [id |-> id, plc_id |-> plc_id, address |-> address,
     portal_sync |-> portal_sync, local_only |-> local_only]

DbTagIds == {"t-1", "u-1"}

\* json.dumps(value), the text stored in a column, and json.loads(text).
JsonDumps(value) == << "json", value >>
JsonLoads(text) == text[2]

\* dict.get(key, default).
Get(opt, default) == IF opt = << >> THEN default ELSE opt[1]

\* Configurations sync_with_portal may be called with.
PortalPayloads == { << [DbPlc("plc-1", "a", << >>) EXCEPT !.tags =
                            << DbTag("t-1", << >>, "x", << >>, << >>) >>] >>,
                    << DbPlc("plc-1", "b", << >>), DbPlc("plc-2", "a", << >>) >>,
                    << DbPlc("plc-2", "b", << FALSE >>) >> }

\* Values update_tag_value is called with, and statuses update_plc_status is.
LastValues == {"7.5"}
PlcStatuses == {"connected", "error"}

\* No row with id = 1 in gateway_config; NULL is -1.
NoConfig == [present |-> FALSE, gateway_id |-> None, config_version |-> 0,
             last_sync |-> -1]

\* No row of plc_devices under an id.
NoDevice == [conn |-> << >>, portal_sync |-> FALSE, local_only |-> FALSE,
             status |-> None]

\* No row of tag_definitions under an id.
NoTag == [plc_id |-> None, address |-> None, portal_sync |-> FALSE,
          local_only |-> FALSE, last_value |-> None]

\* A gateway_config.db right after init_database: the configuration tables.
EmptyStore == [plc_devices |-> [p \in PlcIds |-> NoDevice],
               tag_definitions |-> [t \in DbTagIds |-> NoTag],
               config_audit |-> << >>]

\* INSERT OR REPLACE INTO gateway_config (id, gateway_id, api_key, portal_url,
\* activation_date, settings) VALUES (1, ...): the row is replaced, and the
\* columns not named take their defaults.
ReplaceGatewayConfig(row, gw) ==
    [present |-> TRUE, gateway_id |-> gw, config_version |-> 0, last_sync |-> -1]

\* UPDATE gateway_config SET last_sync = CURRENT_TIMESTAMP WHERE id = 1.
TouchLastSync(row, now) ==
    IF row.present THEN [row EXCEPT !.last_sync = now] ELSE row

\* INSERT OR REPLACE INTO plc_devices (id, name, protocol, enabled,
\* connection_config, scan_rate, timeout, retry_count, portal_sync, local_only,
\* updated_at): the row written for entry plc; status, which the statement
\* does not name, is the column's DEFAULT 'disconnected' (as last_connect,
\* last_error and statistics are their defaults).
PlcRow(plc) ==
    [conn |-> JsonDumps(plc.conn),
     portal_sync |-> Get(plc.portal_sync, TRUE),
     local_only |-> Get(plc.local_only, FALSE),
     status |-> "disconnected"]

\* INSERT INTO config_audit (...) of upsert_plc: old is the row's
\* connection_config before the upsert, None without a row.
PlcAudit(devices, plc) ==
    LET old == devices[plc.id].conn
    IN  [entity_type |-> "plc",
         entity_id |-> plc.id,
         action |-> IF old = << >> THEN "create" ELSE "update",
         old_value |-> old,
         new_value |-> JsonDumps(plc.conn),
         source |-> IF Get(plc.portal_sync, FALSE) THEN "portal" ELSE "local"]

\* upsert_plc(plc) that commits: the row, and the audit record of the same
\* transaction.
UpsertPlcRow(db, plc) ==
    [db EXCEPT !.plc_devices[plc.id] = PlcRow(plc),
                  !.config_audit = Append(@, PlcAudit(db.plc_devices, plc))]

\* INSERT OR REPLACE INTO tag_definitions (...): the row written for tag;
\* last_value, which the statement does not name, is NULL (as last_timestamp
\* is, and last_quality is its DEFAULT 0).
TagRow(tag) ==
    [plc_id |-> Get(tag.plc_id, None),
     address |-> tag.address,
     portal_sync |-> Get(tag.portal_sync, TRUE),
     local_only |-> Get(tag.local_only, FALSE),
     last_value |-> None]

\* upsert_tag(tag) that commits: the row; no other statement is executed.
UpsertTagRow(db, tag) ==
    [db EXCEPT !.tag_definitions[tag.id] = TagRow(tag)]

\* The first loop of sync_with_portal: plc['portal_sync'] = True and
\* upsert_plc(plc), for each entry in turn.
RECURSIVE SyncPlcs(_, _)
SyncPlcs(db, plcs) ==
    IF plcs = << >> THEN db
    ELSE SyncPlcs(UpsertPlcRow(db, [Head(plcs) EXCEPT !.portal_sync = << TRUE >>]),
                  Tail(plcs))

\* for tag in plc.get('tags', []): tag['plc_id'] = plc['id'],
\* tag['portal_sync'] = True, upsert_tag(tag).
RECURSIVE SyncTagsOf(_, _, _)
SyncTagsOf(db, plc_id, tags) ==
    IF tags = << >> THEN db
    ELSE SyncTagsOf(UpsertTagRow(db, [Head(tags) EXCEPT
                                            !.plc_id = << plc_id >>,
                                            !.portal_sync = << TRUE >>]),
                    plc_id, Tail(tags))

\* The second loop of sync_with_portal.
RECURSIVE SyncTags(_, _)
SyncTags(db, plcs) ==
    IF plcs = << >> THEN db
    ELSE SyncTags(SyncTagsOf(db, Head(plcs).id, Head(plcs).tags), Tail(plcs))

\* The ids under which a table has a row, in the order of the sequence ids
\* (the SELECT of get_plcs and get_tags, ORDER BY name).
RECURSIVE Rows(_, _, _)
Rows(table, ids, none) ==
    IF ids = << >> THEN << >>
    ELSE (IF table[Head(ids)] = none THEN << >> ELSE << Head(ids) >>)
         \o Rows(table, Tail(ids), none)

\* get_plcs(enabled_only=False): one dictionary per row.
GetPlcs(db) ==
    LET ids == Rows(db.plc_devices, << "plc-0", "plc-1", "plc-2" >>, NoDevice)
    IN  [i \in 1..Len(ids) |->
            LET row == db.plc_devices[ids[i]]
            IN  [id |-> ids[i],
                 conn |-> JsonLoads(row.conn),
                 portal_sync |-> << row.portal_sync >>,
                 local_only |-> << row.local_only >>,
                 tags |-> << >>]]

\* get_tags(active_only=False): one dictionary per row; the dictionary has
\* no 'portal_sync' and no 'local_only' key.
GetTags(db) ==
    LET ids == Rows(db.tag_definitions, << "t-1", "u-1" >>, NoTag)
    IN  [i \in 1..Len(ids) |->
            LET row == db.tag_definitions[ids[i]]
            IN  DbTag(ids[i], << row.plc_id >>, row.address, << >>, << >>)]

\* export_configuration(): the keys import_configuration reads.
ExportConfiguration(db) == [plcs |-> GetPlcs(db), tags |-> GetTags(db)]

\* for plc in config.get('plcs', []): self.upsert_plc(plc).
RECURSIVE ImportPlcs(_, _)
ImportPlcs(db, plcs) ==
    IF plcs = << >> THEN db
    ELSE ImportPlcs(UpsertPlcRow(db, Head(plcs)), Tail(plcs))

\* for tag in config.get('tags', []): self.upsert_tag(tag).
RECURSIVE ImportTags(_, _)
ImportTags(db, tags) ==
    IF tags = << >> THEN db
    ELSE ImportTags(UpsertTagRow(db, Head(tags)), Tail(tags))

\* import_configuration(config).
ImportConfiguration(db, config) ==
    ImportTags(ImportPlcs(db, config.plcs), config.tags)

\* INSERT INTO tag_history (tag_id, value, quality): id from AUTOINCREMENT,
\* timestamp DEFAULT CURRENT_TIMESTAMP.
InsertHistory(rows, id, now) == rows \cup {[id |-> id, timestamp |-> now]}

\* Trigger limit_history_size: DELETE ... WHERE id IN (SELECT id FROM
\* tag_history ORDER BY timestamp DESC LIMIT -1 OFFSET 100000). The order of
\* rows of equal timestamp is not determined by the statement: every table
\* the DELETE can leave behind.
LimitHistorySize(rows) ==
    LET excess == Max(0, Cardinality(rows) - HistoryLimit)
    IN  {rows \ D : D \in {E \in SUBSET rows :
                              /\ Cardinality(E) = excess
                              /\ \A d \in E : \A k \in rows \ E :
                                     d.timestamp <= k.timestamp}}

\* ------------------------------------------------------------ protocols/*.py

\* The handler classes of protocols/: ModbusHandler, S7Handler,
\* EthernetIPHandler, OPCUAHandler.
DriverClasses == {"modbus", "s7", "ethernet-ip", "opcua"}

\* A Python value a driver decodes or returns: None, a bool, an int, a float
\* (the model's floats are whole numbers), a str or a list of such values.
\* A bool carries 0 or 1 in v.
PyValue(type, v) == [type |-> type, v |-> v, items |-> << >>]
PyNone == PyValue("none", 0)
PyList(items) == [type |-> "list", v |-> 0, items |-> items]

\* isinstance(value, (int, float)): bool is a subclass of int.
IsIntOrFloat(value) == value.type \in {"bool", "int", "float"}

\* a == b in Python: True == 1 == 1.0, and a str equals only the same str.
PyEq(a, b) ==
    IF IsIntOrFloat(a) /\ IsIntOrFloat(b) THEN a.v = b.v ELSE a = b

\* A tag dictionary of a PLC's 'tags' list: index is -1 for an address
\* without an array index (TagName), else the i of TagName[i].
DriverTag(id, name, index, scale, offset) ==
    [id |-> id, name |-> name, index |-> index, scale |-> scale, offset |-> offset]

\* if isinstance(value, (int, float)): value = (value * scale) + offset, with
\* scale and offset converted by float().
Scaled(value, t) ==
    IF IsIntOrFloat(value)
    THEN PyValue("float", (value.v * t.scale) + t.offset)
    ELSE value

\* Messages of the exceptions a lost transport raises in the client
\* libraries, and of those an answering device raises.
TransportErrors == {"Connection reset by peer", "Broken pipe"}
DeviceErrors == {"Illegal data address"}

\* "connection" in str(e).lower().
MentionsConnection(msg) == msg \in {"Connection reset by peer"}

\* A handler object after __init__: lock is TRUE while self.lock is held,
\* request names the call of the client library that is in progress.
NewDriver(class) ==
    [class |-> class, connected |-> FALSE, errors |-> 0, reads |-> 0,
     writes |-> 0, lock |-> FALSE, request |-> "none"]

\* connect(): the handler after the call; up is TRUE when the device can
\* be reached. A connected handler is returned as it is.
Connect(h, up) ==
    IF h.connected THEN h
    ELSE IF up THEN [h EXCEPT !.connected = TRUE]
    ELSE [h EXCEPT !.errors = @ + 1]

\* The except clause of read_tag for an exception with message msg.
ReadFailed(h, msg) ==
    [h EXCEPT !.errors = @ + 1,
              !.connected = IF MentionsConnection(msg) THEN FALSE ELSE @]

\* The except clause of write_tag: self.connected is not assigned.
WriteFailed(h, msg) == [h EXCEPT !.errors = @ + 1]

\* value[array_index] of EthernetIPHandler.read_tag; the other classes
\* decode one value per address.
Indexed(h, value, t) ==
    IF h.class = "ethernet-ip" /\ t.index >= 0 /\ value.type = "list"
    THEN value.items[t.index + 1]
    ELSE value

\* read_tag(tag) on handler h: the handler after the call and the value
\* returned. dev maps a tag name to what the device answers: an error flag
\* and the decoded value; msg is the message of the exception raised when the
\* transport is lost.
ReadTagOf(h, up, dev, msg, t) ==
    LET c == Connect(h, up)
    IN  IF ~c.connected THEN [handler |-> c, value |-> PyNone]
        ELSE IF ~up THEN [handler |-> ReadFailed(c, msg), value |-> PyNone]
        ELSE IF dev[t.name].error
        THEN [handler |-> ReadFailed(c, "Illegal data address"), value |-> PyNone]
        ELSE [handler |-> [c EXCEPT !.reads = @ + 1],
              value |-> Scaled(Indexed(c, dev[t.name].value, t), t)]

\* results[key] = value of a dictionary.
Put(m, k, value) ==
    [x \in (DOMAIN m) \cup {k} |-> IF x = k THEN value ELSE m[x]]
EmptyDict == [x \in {} |-> PyNone]

\* for tag in tags: results[tag id] = self.read_tag(tag): the handler after
\* the calls and the dictionary.
RECURSIVE ReadEach(_, _, _, _, _, _)
ReadEach(h, up, dev, msg, ts, results) ==
    IF ts = << >> THEN [handler |-> h, results |-> results]
    ELSE LET r == ReadTagOf(h, up, dev, msg, Head(ts))
         IN  ReadEach(r.handler, up, dev, msg, Tail(ts),
                      Put(results, Head(ts).id, r.value))

\* The except clause of read_batch: every tag id maps to None.
RECURSIVE AllNone(_, _)
AllNone(ts, results) ==
    IF ts = << >> THEN results
    ELSE AllNone(Tail(ts), Put(results, Head(ts).id, PyNone))

\* tag_map of EthernetIPHandler.read_batch: the last tag of each name.
LastNamed(ts, name) ==
    ts[CHOOSE i \in 1..Len(ts) :
          /\ ts[i].name = name
          /\ \A j \in (i + 1)..Len(ts) : ts[j].name # name]

\* The loop over batch_result of EthernetIPHandler.read_batch, from index i:
\* the i-th result is stored under the id of tag_map[tag_names[i]].
RECURSIVE EipBatch(_, _, _, _)
EipBatch(dev, ts, i, results) ==
    IF i > Len(ts) THEN results
    ELSE LET t == LastNamed(ts, ts[i].name)
             answer == dev[ts[i].name]
         IN  EipBatch(dev, ts, i + 1,
                      Put(results, t.id,
                          IF answer.error THEN PyNone
                          ELSE Scaled(answer.value, t)))

\* The loop over values of OPCUAHandler.read_batch: client.get_values gives
\* None for a node that cannot be read.
RECURSIVE OpcuaBatch(_, _, _, _)
OpcuaBatch(dev, ts, i, results) ==
    IF i > Len(ts) THEN results
    ELSE LET answer == dev[ts[i].name]
         IN  OpcuaBatch(dev, ts, i + 1,
                        Put(results, ts[i].id,
                            IF answer.error THEN PyNone
                            ELSE Scaled(answer.value, ts[i])))

\* read_batch(tags): ModbusHandler and S7Handler call read_tag per tag;
\* EthernetIPHandler and OPCUAHandler return {} when connect() fails, read
\* all tags in one request and map every tag to None when that raises.
ReadBatchOf(h, up, dev, msg, ts) ==
    IF h.class \in {"modbus", "s7"}
    THEN ReadEach(h, up, dev, msg, ts, EmptyDict)
    ELSE LET c == Connect(h, up)
         IN  IF ~c.connected THEN [handler |-> c, results |-> EmptyDict]
             ELSE IF h.class = "ethernet-ip" /\ Len(ts) <= 1
             THEN ReadEach(c, up, dev, msg, ts, EmptyDict)
             ELSE IF ~up
             THEN [handler |-> c, results |-> AllNone(ts, EmptyDict)]
             ELSE [handler |-> c,
                   results |-> IF h.class = "ethernet-ip"
                               THEN EipBatch(dev, ts, 1, EmptyDict)
                               ELSE OpcuaBatch(dev, ts, 1, EmptyDict)]

\* write_tag(tag, value): the handler after the call and what it returns.
WriteTagOf(h, up, accepted, msg) ==
    LET c == Connect(h, up)
    IN  IF ~c.connected THEN [handler |-> c, value |-> FALSE]
        ELSE IF ~up THEN [handler |-> WriteFailed(c, msg), value |-> FALSE]
        ELSE IF ~accepted
        THEN [handler |-> WriteFailed(c, "Illegal data address"), value |-> FALSE]
        ELSE [handler |-> [c EXCEPT !.writes = @ + 1], value |-> TRUE]

\* No call has been made yet.
NoCall == [op |-> "none"]

\* The collection loop has not visited the PLC: wake is the time its next
\* pass may start, fails the connect() calls that failed in a row, last the
\* time of the latest connect() call, samples the data points it buffered.
NoPoll == [wake |-> 0, fails |-> 0, last |-> 0, samples |-> 0]

\* ------------------------------------------------------------------ Init

NoPoint == [tag_id |-> None, timestamp |-> -1]

\* The state after HerculesGateway() is constructed on a fresh install, by a
\* HerculesGatewayService() that has seen no failure, beside a
\* GatewayDatabase() whose configuration tables hold db.
ConstructedFor(db, class) ==
    /\ clock = 0
    /\ main = "new"
    /\ running = TRUE
    /\ api_key = None
    /\ gateway_id = None
    /\ endpoints = "empty"
    /\ keyring \in [ok : BOOLEAN, api_key : {None}, gateway_id : {None}]
    /\ plc_configs = << >>
    /\ plc_handlers = [p \in PlcIds |-> NoHandler]
    /\ data_buffer = InitDatabase({})
    /\ next_id = 1
    /\ scan_list = << >>
    /\ scan_plc = 0
    /\ scan = 0
    /\ data_point = NoPoint
    /\ data_queue = 0
    /\ upc = [e \in Executors |-> "idle"]
    /\ batch = [e \in Executors |-> << >>]
    /\ response = [e \in Executors |-> None]
    /\ restart_count = 0
    /\ last_restart_time = Epoch
    /\ gateway_config = NoConfig
    /\ plc_devices = db.plc_devices
    /\ tag_definitions = db.tag_definitions
    /\ config_audit = db.config_audit
    /\ restored = EmptyStore
    /\ driver = NewDriver(class)
    /\ link = TRUE
    /\ call = NoCall
    /\ poll = NoPoll
    /\ ws = "none"
    /\ on_close = "idle"
    /\ tag_history = {}
    /\ hist_id = 1
    /\ portal = "flaky"
    /\ stalled = {}
    /\ acked = {}
    /\ failed = {}
    /\ acked_ts = -1
    /\ carried = {}
    /\ rejected = FALSE
    /\ failures = << >>
    /\ instances = [p \in PlcIds |-> 0]

\* The same on a fresh gateway_config.db.
\* A gateway beside a gateway_config.db, with a Modbus PLC.
ConstructedBeside(db) == ConstructedFor(db, "modbus")

Constructed == ConstructedBeside(EmptyStore)

Init == Constructed /\ portal_plcs = OneTagPlcs

\* The same, against a portal that serves a PLC with two tags.
InitTags == Constructed /\ portal_plcs = TwoTagPlcs

\* The same, against a portal that serves two PLCs.
InitPlcs == Constructed /\ portal_plcs = TwoPlcs

\* The process exists and its daemon threads run.
Alive == main \in {"running", "shutdown"}

\* Groups of variables, for the frame conditions.
identity  == << api_key, gateway_id, endpoints >>
store     == << data_buffer, next_id >>
drivers   == << plc_handlers, instances >>
collector == << scan_list, scan_plc, scan, data_point, data_queue >>
uploader  == << upc, batch, response >>
supervisor == << restart_count, last_restart_time, rejected, failures >>
configuration == << plc_devices, tag_definitions, config_audit >>
database  == << gateway_config, configuration, tag_history, hist_id, restored >>
history   == << acked, failed, acked_ts, carried >>
portal_env == << portal, portal_plcs, stalled >>
protocols == << driver, link, call, poll >>
push == << ws, on_close >>

\* ------------------------------------------------------- activation, run

\* activate(), up to the activation request: stored credentials are adopted
\* without a request; a keyring that raises falls through to the POST.
Activate ==
    /\ main = "new"
    /\ IF keyring.ok /\ HasStoredCredentials(keyring.api_key, keyring.gateway_id)
       THEN /\ api_key' = keyring.api_key
            /\ gateway_id' = keyring.gateway_id
            /\ main' = "activated"
       ELSE /\ main' = "activating"
            /\ UNCHANGED << api_key, gateway_id >>
    /\ UNCHANGED << clock, running, endpoints, keyring, plc_configs, drivers,
                    store, collector, uploader, supervisor, database,
                    protocols, push, portal_env, history >>

\* What the activation endpoint can answer: a portal that is up accepts the
\* activation code; otherwise also a 4xx, a 5xx or no answer.
ActivationOutcomes == IF portal = "up" THEN {"200"} ELSE HttpOutcomes \cup {"400"}

\* The activation was refused with a 4xx status.
ActivationFatal(outcome) == outcome = "400"

\* activate(), from the response of POST /api/gateway/activate on: a 200
\* stores the credentials and the endpoints and saves them to the keyring (a
\* keyring that raises only logs a warning); anything else makes activate()
\* return False, and run() logs the failure and calls input().
ActivateResponse ==
    /\ main = "activating"
    /\ \E outcome \in ActivationOutcomes, key \in PortalApiKeys :
         IF outcome = "200"
         THEN /\ api_key' = key
              /\ gateway_id' = PortalGatewayId
              /\ endpoints' = "discovered"
              /\ keyring' = IF keyring.ok
                            THEN [keyring EXCEPT !.api_key = key,
                                                 !.gateway_id = PortalGatewayId]
                            ELSE keyring
              /\ main' = "activated"
              /\ UNCHANGED rejected
         ELSE /\ main' = "prompt"
              /\ rejected' = (rejected \/ ActivationFatal(outcome))
              /\ UNCHANGED << identity, keyring >>
    /\ UNCHANGED << clock, running, plc_configs, drivers, store, collector,
                    uploader, restart_count, last_restart_time, failures,
                    database, protocols, push,
                    portal_env, history >>

\* input("Press Enter to exit...") returns and run() returns with no thread
\* started; under main() of gateway.py an input() that raises ends the
\* process as well.
Prompt ==
    /\ main = "prompt"
    /\ main' = "exited"
    /\ UNCHANGED << clock, running, identity, keyring, plc_configs, drivers,
                    store, collector, uploader, supervisor, database,
                    protocols, push, portal_env, history >>

\* connect_websocket(): returns at once without an api_key or without a
\* 'websocket' endpoint; else self.ws becomes a new WebSocketApp whose
\* run_forever thread is started.
ConnectWebsocket(app) ==
    IF Truthy(api_key) /\ endpoints = "discovered" THEN "open" ELSE app

\* sync_configuration(): False without an api_key; a 200 replaces plc_configs
\* by the portal's list (reconnect_plcs only logs; when it raises on an entry
\* the list is already assigned); any other outcome leaves it.
SyncConfiguration(outcome) ==
    plc_configs' = IF Truthy(api_key) /\ outcome = "200" THEN portal_plcs
                   ELSE plc_configs

\* run(), after activate(): the initial sync, whose failure is only logged,
\* connect_websocket(), then the five daemon threads are started.
StartThreads ==
    /\ main = "activated"
    /\ \E outcome \in HttpOutcomes : SyncConfiguration(outcome)
    /\ ws' = ConnectWebsocket(ws)
    /\ main' = "running"
    /\ UNCHANGED << clock, running, identity, keyring, drivers, store,
                    collector, uploader, supervisor, database, protocols,
                    on_close, portal_env, history >>

\* One iteration of config_sync_loop.
ConfigSyncLoop ==
    /\ Alive /\ running
    /\ \E outcome \in HttpOutcomes : SyncConfiguration(outcome)
    /\ UNCHANGED << clock, main, running, identity, keyring, drivers, store,
                    collector, uploader, supervisor, database, protocols, push,
                    portal_env, history >>

\* --------------------------------------------------------- collect_data

NextTag(k, tags) == IF k < Len(tags) THEN k + 1 ELSE 0

\* The collector leaves the PLC at index scan_plc: on to the next entry of
\* the iterated list, or out of the pass.
LeavePlc ==
    /\ scan_plc' = NextPlc(scan_list, scan_plc)
    /\ scan_list' = Iterated(scan_list, NextPlc(scan_list, scan_plc))
    /\ scan' = 0

\* An exception leaves collect_data and is logged by data_collection_loop:
\* the pass is over.
AbortPass ==
    /\ scan_plc' = 0
    /\ scan_list' = << >>
    /\ scan' = 0

\* data_collection_loop enters collect_data: the for loop takes the list that
\* self.plc_configs refers to at this moment.
CollectData ==
    /\ Alive /\ running
    /\ scan_plc = 0 /\ data_point = NoPoint
    /\ plc_configs # << >>
    /\ scan_list' = plc_configs
    /\ scan_plc' = 1
    /\ scan' = 0
    /\ UNCHANGED << clock, main, running, identity, keyring, plc_configs,
                    drivers, store, data_point, data_queue, uploader,
                    supervisor, database, protocols, push, portal_env, history
                    >>

\* The body of the for loop up to tags_to_read, for the entry at scan_plc: a
\* disabled entry is skipped; get_or_create_handler returns the stored
\* handler, constructs one (the constructor may raise, which gives None),
\* gives None or raises; with a handler, a failed connect() or an empty tag
\* list skips the PLC.
ScanPlc ==
    /\ Alive
    /\ scan_plc > 0 /\ scan = 0 /\ data_point = NoPoint
    /\ LET plc == scan_list[scan_plc]
           lookup == HandlerLookup(plc_handlers, plc)
       IN  \E built \in BOOLEAN, connected \in BOOLEAN :
             LET made == plc.enabled /\ lookup = "construct" /\ built
                 handler == plc.enabled
                              /\ (lookup = "existing" \/ made)
             IN  /\ plc_handlers' = IF made
                                    THEN [plc_handlers EXCEPT ![plc.id] = NewHandler(plc)]
                                    ELSE plc_handlers
                 /\ instances' = IF made
                                 THEN [instances EXCEPT ![plc.id] = @ + 1]
                                 ELSE instances
                 /\ IF plc.enabled /\ lookup = "raise"
                    THEN AbortPass
                    ELSE IF handler /\ connected /\ plc.tags # << >>
                    THEN /\ scan' = 1
                         /\ UNCHANGED << scan_list, scan_plc >>
                    ELSE LeavePlc
    /\ UNCHANGED << clock, main, running, identity, keyring, plc_configs,
                    store, data_point, data_queue, uploader, supervisor,
                    database, protocols, push, portal_env, history >>

\* After the tag at index scan: the next tag, or the next PLC.
LeaveTag ==
    LET tags == scan_list[scan_plc].tags
    IN  IF NextTag(scan, tags) # 0
        THEN /\ scan' = NextTag(scan, tags)
             /\ UNCHANGED << scan_list, scan_plc >>
        ELSE LeavePlc

\* value = handler.read_tag(tag), which returns once the PLC answers or the
\* handler's timeout expires: None drops the sample; an exception is caught
\* at the PLC's try and ends this PLC's scan; any other value is stamped with
\* the wall clock and the data point is put on self.data_queue.
ReadTag ==
    /\ Alive
    /\ scan > 0 /\ data_point = NoPoint
    /\ scan_list[scan_plc].id \notin stalled
    /\ \E value \in {None, "raise", "value"} :
         CASE value = None ->
                /\ LeaveTag
                /\ UNCHANGED << data_point, data_queue >>
           [] value = "raise" ->
                /\ LeavePlc
                /\ UNCHANGED << data_point, data_queue >>
           [] OTHER ->
                /\ next_id <= MaxRows
                /\ data_point' = [tag_id |-> scan_list[scan_plc].tags[scan],
                                  timestamp |-> CaptureTimestamp(clock)]
                /\ data_queue' = data_queue + 1
                /\ UNCHANGED << scan_list, scan_plc, scan >>
    /\ UNCHANGED << clock, main, running, identity, keyring, plc_configs,
                    drivers, store, uploader, supervisor, database, protocols,
                    push, portal_env, history >>

\* buffer_data(data_point): one committed INSERT.
BufferData ==
    /\ Alive
    /\ data_point # NoPoint
    /\ data_buffer' = InsertRow(data_buffer, next_id, gateway_id, data_point, clock)
    /\ next_id' = next_id + 1
    /\ data_point' = NoPoint
    /\ UNCHANGED data_queue
    /\ LeaveTag
    /\ UNCHANGED << clock, main, running, identity, keyring, plc_configs,
                    drivers, uploader, supervisor, database, protocols, push,
                    portal_env, history >>

\* ---------------------------------------------------------- upload_data

Payload(r) == [id |-> r.id, tag_id |-> r.tag_id, timestamp |-> r.timestamp]

PayloadOf(rows) == [i \in 1..Len(rows) |-> Payload(rows[i])]

MaxTimestamp(rows) ==
    IF rows = << >> THEN -1
    ELSE CHOOSE t \in {rows[i].timestamp : i \in 1..Len(rows)} :
             \A i \in 1..Len(rows) : rows[i].timestamp <= t

\* The thread that runs executor e is at the call of upload_data.
AtUpload(e) ==
    /\ upc[e] = "idle"
    /\ IF e = "loop" THEN Alive /\ running ELSE main = "shutdown"

\* upload_data(), up to the request: False without an api_key; True, with no
\* request, when no row is pending; else the batch is built and POSTed.
UploadData(e) ==
    /\ AtUpload(e)
    /\ IF ~Truthy(api_key)
       THEN /\ upc' = [upc EXCEPT ![e] = "fail"]
            /\ UNCHANGED batch
       ELSE LET rows == SelectBatch(data_buffer)
            IN  IF ShouldPost(rows)
                THEN /\ upc' = [upc EXCEPT ![e] = "post"]
                     /\ batch' = [batch EXCEPT ![e] = PayloadOf(rows)]
                ELSE /\ upc' = [upc EXCEPT ![e] = "ok"]
                     /\ UNCHANGED batch
    /\ UNCHANGED << clock, main, running, identity, keyring, plc_configs,
                    drivers, store, collector, response, supervisor,
                    database, protocols, push, portal_env, history >>

\* What the data endpoint can answer.
DataOutcomes == IF portal = "up" THEN {"200"} ELSE HttpOutcomes

\* requests.post(data endpoint, timeout=30) returns a response or raises.
PostReturns(e) ==
    /\ Alive
    /\ upc[e] = "post"
    /\ \E outcome \in DataOutcomes : response' = [response EXCEPT ![e] = outcome]
    /\ upc' = [upc EXCEPT ![e] = "responded"]
    /\ UNCHANGED << clock, main, running, identity, keyring, plc_configs,
                    drivers, store, collector, batch, supervisor, database,
                    protocols, push, portal_env, history >>

\* upload_data(), after the request: a 200 marks the batch uploaded in one
\* committed UPDATE and returns True; any other status and any exception
\* return False.
UploadResult(e) ==
    /\ Alive
    /\ upc[e] = "responded"
    /\ IF ResponseOk(response[e])
       THEN /\ data_buffer' = MarkUploaded(data_buffer, Ids(batch[e]))
            /\ upc' = [upc EXCEPT ![e] = "ok"]
       ELSE /\ data_buffer' = OnUploadFailure(data_buffer, Ids(batch[e]))
            /\ upc' = [upc EXCEPT ![e] = "fail"]
    /\ IF response[e] = "200"
       THEN /\ acked' = acked \cup Ids(batch[e])
            /\ failed' = failed \ Ids(batch[e])
            /\ carried' = carried \ Ids(batch[e])
            /\ acked_ts' = Max(acked_ts, MaxTimestamp(batch[e]))
       ELSE /\ failed' = failed \cup (Ids(batch[e]) \cap PendingIds(data_buffer))
            /\ UNCHANGED << acked, carried, acked_ts >>
    /\ batch' = [batch EXCEPT ![e] = << >>]
    /\ response' = [response EXCEPT ![e] = None]
    /\ UNCHANGED << clock, main, running, identity, keyring, plc_configs,
                    drivers, next_id, collector, supervisor, database,
                    protocols, push, portal_env >>

\* data_upload_loop: time.sleep(interval) after upload_data returned.
UploadSleep ==
    /\ Alive
    /\ upc["loop"] \in {"ok", "fail"}
    /\ upc' = [upc EXCEPT !["loop"] = "idle"]
    /\ UNCHANGED << clock, main, running, identity, keyring, plc_configs,
                    drivers, store, collector, batch, response, supervisor,
                    database, protocols, push, portal_env, history >>

\* One iteration of cleanup_loop.
CleanupLoop ==
    /\ Alive /\ running
    /\ \E skew \in TzSkews :
         data_buffer' = {r \in data_buffer : ~CleanupVictim(r, clock + skew)}
    /\ UNCHANGED << clock, main, running, identity, keyring, plc_configs,
                    drivers, next_id, collector, uploader, supervisor,
                    database, protocols, push, portal_env, history >>

\* ------------------------------------------------------ shutdown, restart

\* KeyboardInterrupt in run(): shutdown() clears running, closes self.ws if
\* there is one (the on_close this causes finds running cleared and does
\* nothing) and goes on to its own upload_data(), whatever the daemon
\* threads are in the middle of.
Shutdown ==
    /\ main = "running"
    /\ running' = FALSE
    /\ ws' = IF ws = "none" THEN ws ELSE "closed"
    /\ main' = "shutdown"
    /\ UNCHANGED << clock, identity, keyring, plc_configs, drivers, store,
                    collector, uploader, supervisor, database, protocols,
                    on_close, portal_env, history >>

\* The attributes and the threads' locals of a fresh HerculesGateway().
FreshMemory ==
    /\ running' = TRUE
    /\ api_key' = None
    /\ gateway_id' = None
    /\ endpoints' = "empty"
    /\ plc_configs' = << >>
    /\ plc_handlers' = [p \in PlcIds |-> NoHandler]
    /\ instances' = [p \in PlcIds |-> 0]
    /\ scan_list' = << >>
    /\ scan_plc' = 0
    /\ scan' = 0
    /\ data_point' = NoPoint
    /\ data_queue' = 0
    /\ upc' = [e \in Executors |-> "idle"]
    /\ batch' = [e \in Executors |-> << >>]
    /\ response' = [e \in Executors |-> None]
    /\ ws' = "none"
    /\ on_close' = "idle"

\* shutdown() returns after its upload_data(), run() returns and the process
\* ends with its daemon threads: what it held in memory is gone.
ShutdownComplete ==
    /\ main = "shutdown"
    /\ upc["final"] \in {"ok", "fail"}
    /\ main' = "exited"
    /\ FreshMemory
    /\ UNCHANGED << clock, keyring, store, supervisor, database, protocols,
                    portal_env, history >>

\* The process ends, at any point, and is started again by its operator:
\* HerculesGateway() is constructed anew and init_database runs on the
\* buffer.db left behind.
Restart ==
    /\ main' = "new"
    /\ FreshMemory
    /\ data_buffer' = InitDatabase(data_buffer)
    /\ carried' = failed
    /\ restart_count' = 0
    /\ last_restart_time' = Epoch
    /\ rejected' = FALSE
    /\ failures' = << >>
    /\ UNCHANGED << clock, keyring, next_id, database, protocols, portal_env,
                    acked, failed, acked_ts >>

\* The wall clock advances.
Tick ==
    /\ clock < MaxClock
    /\ clock' = clock + 1
    /\ UNCHANGED << main, running, identity, keyring, plc_configs, drivers,
                    store, collector, uploader, supervisor, database,
                    protocols, push, portal_env, history >>

Next ==
    \/ Activate
    \/ ActivateResponse
    \/ Prompt
    \/ StartThreads
    \/ ConfigSyncLoop
    \/ CollectData
    \/ ScanPlc
    \/ ReadTag
    \/ BufferData
    \/ \E e \in Executors : UploadData(e)
    \/ \E e \in Executors : PostReturns(e)
    \/ \E e \in Executors : UploadResult(e)
    \/ UploadSleep
    \/ CleanupLoop
    \/ Shutdown
    \/ ShutdownComplete
    \/ Restart
    \/ Tick

Spec == Init /\ [][Next]_vars

\* The collection thread beside the upload loop, the cleanup and restarts of
\* the process at any point, without the KeyboardInterrupt path.
TagsNext ==
    \/ Activate
    \/ ActivateResponse
    \/ Prompt
    \/ StartThreads
    \/ ConfigSyncLoop
    \/ CollectData
    \/ ScanPlc
    \/ ReadTag
    \/ BufferData
    \/ UploadData("loop")
    \/ PostReturns("loop")
    \/ UploadResult("loop")
    \/ UploadSleep
    \/ CleanupLoop
    \/ Restart
    \/ Tick

SpecTags == InitTags /\ [][TagsNext]_vars

\* The portal recovers from an outage.
PortalRecovers ==
    /\ portal = "flaky"
    /\ portal' = "up"
    /\ UNCHANGED << clock, main, running, identity, keyring, plc_configs,
                    drivers, store, collector, uploader, supervisor, database,
                    protocols, push, portal_plcs, stalled, history >>

\* A run in which the gateway, once started, is neither shut down nor
\* restarted, and in which the portal, once recovered, stays up.
LiveNext ==
    \/ Activate
    \/ ActivateResponse
    \/ Prompt
    \/ StartThreads
    \/ ConfigSyncLoop
    \/ CollectData
    \/ ScanPlc
    \/ ReadTag
    \/ BufferData
    \/ UploadData("loop")
    \/ PostReturns("loop")
    \/ UploadResult("loop")
    \/ UploadSleep
    \/ CleanupLoop
    \/ PortalRecovers
    \/ Tick

\* The DataUpload thread is scheduled: its sleep ends, its request returns
\* within the 30 s timeout, and each statement of upload_data is executed.
LiveSpec ==
    /\ Init
    /\ [][LiveNext]_vars
    /\ WF_vars(UploadData("loop"))
    /\ WF_vars(PostReturns("loop"))
    /\ WF_vars(UploadResult("loop"))
    /\ WF_vars(UploadSleep)

\* ------------------------------------------------------ service_manager.py

\* handle_failure: the count is reset when the last restart is longer ago
\* than the window, then incremented.
RestartCount(count, last, now) ==
    (IF now - last > restart_window THEN 0 ELSE count) + 1

\* if self.restart_count <= self.max_restarts.
ShouldRestart(count) == count <= max_restarts

\* input() raises in run() (EOFError on a closed stdin, as after daemonize()),
\* the exception reaches start_gateway's except clause, and handle_failure
\* either sleeps and calls start_gateway again, which constructs a new
\* HerculesGateway() and runs it, or calls stop().
HandleFailure ==
    /\ main = "prompt"
    /\ LET count == RestartCount(restart_count, last_restart_time, clock)
       IN  /\ restart_count' = count
           /\ last_restart_time' = clock
           /\ failures' = Append(failures, clock)
           /\ IF ShouldRestart(count)
              THEN /\ main' = "new"
                   /\ FreshMemory
                   /\ data_buffer' = InitDatabase(data_buffer)
                   /\ carried' = failed
              ELSE /\ main' = "exited"
                   /\ running' = FALSE
                   /\ UNCHANGED << identity, plc_configs, drivers, data_buffer,
                                   collector, uploader, carried, push >>
    /\ UNCHANGED << clock, keyring, next_id, rejected, database, protocols,
                    portal_env, acked, failed, acked_ts >>

\* The gateway run by HerculesGatewayService.start_gateway, up to the start
\* of its threads, with no operator at hand.
ServiceNext ==
    \/ Activate
    \/ ActivateResponse
    \/ Prompt
    \/ HandleFailure
    \/ StartThreads
    \/ ConfigSyncLoop
    \/ PortalRecovers
    \/ Tick

\* The main thread is scheduled: the activation request returns within its
\* 30 s timeout, input() returns or raises, and the sleep of handle_failure
\* ends.
ServiceSpec ==
    /\ Init
    /\ [][ServiceNext]_vars
    /\ WF_vars(Activate)
    /\ WF_vars(ActivateResponse)
    /\ WF_vars(Prompt \/ HandleFailure)
    /\ WF_vars(StartThreads)

\* The service is stopped while the gateway runs: UnixDaemon.handle_signal
\* (SIGTERM, SIGINT) calls stop() and sys.exit(0), whose SystemExit no except
\* clause of run() or start_gateway catches; SvcStop calls stop(), and run()
\* leaves its loop and returns. Neither calls shutdown(): the process ends
\* with its daemon threads.
ServiceStop ==
    /\ main = "running"
    /\ main' = "exited"
    /\ FreshMemory
    /\ UNCHANGED << clock, keyring, store, supervisor, database, protocols,
                    portal_env, history >>

\* The gateway under its service manager, which may stop it.
StopNext ==
    \/ Next
    \/ ServiceStop

StopSpec == Init /\ [][StopNext]_vars

\* ------------------------------------------------------ stop() on a thread

\* HerculesWindowsService.SvcStop, called on the service's control thread
\* while the gateway thread is before its main loop: stop() clears
\* self.running of the service and the running flag of the gateway that
\* start_gateway holds at the time.
SvcStop ==
    /\ main \in {"new", "activating", "activated", "prompt"}
    /\ running
    /\ running' = FALSE
    /\ UNCHANGED << clock, main, identity, keyring, plc_configs, drivers,
                    store, collector, uploader, supervisor, database,
                    protocols, push, portal_env, history >>

\* SvcDoRun returns once SvcStop has set its event, and the process ends with
\* the daemon thread that runs start_gateway.
SvcDoRunReturns ==
    /\ ~running
    /\ main # "exited"
    /\ main' = "exited"
    /\ UNCHANGED << clock, running, identity, keyring, plc_configs, drivers,
                    store, collector, uploader, supervisor, database,
                    protocols, push, portal_env, history >>

\* The gateway thread of the Windows service and the service's control
\* thread.
HaltNext ==
    \/ ServiceNext
    \/ SvcStop
    \/ SvcDoRunReturns

HaltSpec == Init /\ [][HaltNext]_vars

\* ------------------------------------------------------- the push channel

\* The portal or the network closes the connection: run_forever calls
\* on_close, which starts its time.sleep(10).
WsDrops ==
    /\ Alive
    /\ ws = "open"
    /\ on_close = "idle"
    /\ ws' = "closed"
    /\ on_close' = "sleep"
    /\ UNCHANGED << clock, main, running, identity, keyring, plc_configs,
                    drivers, store, collector, uploader, supervisor, database,
                    protocols, portal_env, history >>

\* on_close, after its sleep: if self.running.
OnCloseWakes ==
    /\ Alive
    /\ on_close = "sleep"
    /\ on_close' = IF running THEN "checked" ELSE "idle"
    /\ UNCHANGED << clock, main, running, identity, keyring, plc_configs,
                    drivers, store, collector, uploader, supervisor, database,
                    protocols, ws, portal_env, history >>

\* on_close, after its check: self.connect_websocket().
OnCloseReconnects ==
    /\ Alive
    /\ on_close = "checked"
    /\ ws' = ConnectWebsocket(ws)
    /\ on_close' = "idle"
    /\ UNCHANGED << clock, main, running, identity, keyring, plc_configs,
                    drivers, store, collector, uploader, supervisor, database,
                    protocols, portal_env, history >>

\* The gateway's start, its upload executors with an empty buffer, its
\* shutdown and the callbacks of its push channel.
PushNext ==
    \/ Activate
    \/ ActivateResponse
    \/ Prompt
    \/ StartThreads
    \/ \E e \in Executors : UploadData(e)
    \/ UploadSleep
    \/ Shutdown
    \/ ShutdownComplete
    \/ Restart
    \/ WsDrops
    \/ OnCloseWakes
    \/ OnCloseReconnects

PushSpec == Init /\ [][PushNext]_vars

\* ------------------------------------------------------- the polled PLCs

\* The configuration is edited in the portal.
PortalEdits ==
    /\ \E plcs \in PortalConfigs \ {portal_plcs} : portal_plcs' = plcs
    /\ UNCHANGED << clock, main, running, identity, keyring, plc_configs,
                    drivers, store, collector, uploader, supervisor, database,
                    protocols, push, portal, stalled, history >>

\* A PLC stops answering: a read of it does not return until it answers again
\* or the handler's timeout expires.
Stall ==
    /\ stalled = {}
    /\ \E p \in EnabledIds(plc_configs) : stalled' = {p}
    /\ UNCHANGED << clock, main, running, identity, keyring, plc_configs,
                    drivers, store, collector, uploader, supervisor, database,
                    protocols, push, portal, portal_plcs, history >>

Unstall ==
    /\ stalled # {}
    /\ stalled' = {}
    /\ UNCHANGED << clock, main, running, identity, keyring, plc_configs,
                    drivers, store, collector, uploader, supervisor, database,
                    protocols, push, portal, portal_plcs, history >>

\* The gateway's activation, its configuration sync and its collection
\* thread, against a portal whose PLC list changes and PLCs that stall.
PollNext ==
    \/ Activate
    \/ ActivateResponse
    \/ Prompt
    \/ StartThreads
    \/ ConfigSyncLoop
    \/ CollectData
    \/ ScanPlc
    \/ ReadTag
    \/ BufferData
    \/ PortalEdits
    \/ Stall
    \/ Unstall

PollSpec == InitPlcs /\ [][PollNext]_vars

\* ---------------------------------------------------- the GatewayDatabase

\* The configuration tables of gateway_config.db, and their next content.
Store == [plc_devices |-> plc_devices, tag_definitions |-> tag_definitions,
          config_audit |-> config_audit]

StoreBecomes(db) ==
    /\ plc_devices' = db.plc_devices
    /\ tag_definitions' = db.tag_definitions
    /\ config_audit' = db.config_audit

\* save_gateway_config(config).
SaveGatewayConfig ==
    /\ \E gw \in {PortalGatewayId, "gw-43"} :
         gateway_config' = ReplaceGatewayConfig(gateway_config, gw)
    /\ UNCHANGED << clock, main, running, identity, keyring, plc_configs,
                    drivers, store, collector, uploader, supervisor, protocols,
                    push, configuration, tag_history, hist_id, restored,
                    portal_env, history >>

\* sync_with_portal(portal_config): every PLC of the payload is upserted,
\* then every tag of every PLC, then last_sync is written.
SyncWithPortal(payload) ==
    /\ Len(config_audit) + Len(payload) <= MaxAudit
    /\ StoreBecomes(SyncTags(SyncPlcs(Store, payload), payload))
    /\ gateway_config' = TouchLastSync(gateway_config, clock)
    /\ UNCHANGED << clock, main, running, identity, keyring, plc_configs,
                    drivers, store, collector, uploader, supervisor, protocols,
                    push, tag_history, hist_id, restored, portal_env, history
                    >>

\* upsert_plc(plc) called for a device configured locally (as
\* import_configuration does for each PLC of a backup). A call that raises
\* before conn.commit() (a key the dictionary lacks, an sqlite3 error)
\* returns False and its connection is dropped uncommitted.
UpsertPlc ==
    /\ Len(config_audit) < MaxAudit
    /\ \E id \in {"plc-1", "plc-2"}, conn \in {"a", "c"}, lo \in BOOLEAN,
          ps \in {<< >>, << FALSE >>}, committed \in BOOLEAN :
         LET plc == [DbPlc(id, conn, << lo >>) EXCEPT !.portal_sync = ps]
         IN  StoreBecomes(IF committed THEN UpsertPlcRow(Store, plc) ELSE Store)
    /\ UNCHANGED << clock, main, running, identity, keyring, plc_configs,
                    drivers, store, collector, uploader, supervisor, protocols,
                    push, gateway_config, tag_history, hist_id, restored,
                    portal_env, history >>

\* upsert_tag(tag) called for a tag configured locally; it may raise before
\* conn.commit() as upsert_plc may.
UpsertTag ==
    /\ \E id \in DbTagIds, address \in {"y"}, lo \in BOOLEAN,
          ps \in {<< >>, << FALSE >>}, committed \in BOOLEAN :
         LET tag == DbTag(id, << OwnerOf(id) >>, address, ps, << lo >>)
         IN  StoreBecomes(IF committed THEN UpsertTagRow(Store, tag) ELSE Store)
    /\ UNCHANGED << clock, main, running, identity, keyring, plc_configs,
                    drivers, store, collector, uploader, supervisor, protocols,
                    push, gateway_config, tag_history, hist_id, restored,
                    portal_env, history >>

\* update_tag_value(tag_id, value, quality): the UPDATE of the tag's
\* last_value and, the row's log_enabled being the 1 every upsert_tag of the
\* model writes, the INSERT INTO tag_history with its trigger. Without a row
\* under tag_id neither statement changes anything.
UpdateTagValue ==
    /\ hist_id <= MaxHistory
    /\ \E t \in DbTagIds, value \in LastValues :
         IF tag_definitions[t] = NoTag
         THEN UNCHANGED << tag_definitions, tag_history, hist_id >>
         ELSE /\ tag_definitions' =
                    [tag_definitions EXCEPT ![t].last_value = value]
              /\ \E kept \in LimitHistorySize(
                                  InsertHistory(tag_history, hist_id, clock)) :
                    tag_history' = kept
              /\ hist_id' = hist_id + 1
    /\ UNCHANGED << clock, main, running, identity, keyring, plc_configs,
                    drivers, store, collector, uploader, supervisor,
                    protocols, push, gateway_config, plc_devices,
                    config_audit, restored, portal_env, history >>

\* update_plc_status(plc_id, status, error): UPDATE plc_devices SET status,
\* last_connect, last_error WHERE id = plc_id; no row, no change.
UpdatePlcStatus ==
    /\ \E id \in {"plc-1", "plc-2"}, status \in PlcStatuses :
         plc_devices' = IF plc_devices[id] = NoDevice THEN plc_devices
                        ELSE [plc_devices EXCEPT ![id].status = status]
    /\ UNCHANGED << clock, main, running, identity, keyring, plc_configs,
                    drivers, store, collector, uploader, supervisor,
                    protocols, push, gateway_config, tag_definitions,
                    config_audit, tag_history, hist_id, restored, portal_env,
                    history >>

\* The configuration tables of gateway_config.db.
DbNext ==
    \/ SaveGatewayConfig
    \/ \E payload \in PortalPayloads : SyncWithPortal(payload)
    \/ UpsertPlc
    \/ UpsertTag
    \/ Tick

DbSpec == Init /\ [][DbNext]_vars

\* The tag_history table of gateway_config.db.
HistoryNext ==
    \/ UpsertTag
    \/ UpdateTagValue
    \/ Tick

HistorySpec == Init /\ [][HistoryNext]_vars

\* The plc_devices table with its runtime columns (tag_definitions with its
\* own is under HistorySpec).
RuntimeNext ==
    \/ UpsertPlc
    \/ UpdatePlcStatus

RuntimeSpec == Init /\ [][RuntimeNext]_vars

\* ------------------------------------------------------ backup and restore

\* Entries upsert_plc and upsert_tag have been called with, in call order,
\* by the time a backup is taken.
StoredPlcs ==
    {[DbPlc(id, "a", lo) EXCEPT !.portal_sync = ps] :
        id \in {"plc-1", "plc-2"}, lo \in {<< >>, << TRUE >>},
        ps \in {<< >>, << FALSE >>}}
StoredTags ==
    {DbTag("t-1", << "plc-1" >>, "x", ps, lo) :
        ps \in {<< >>, << FALSE >>}, lo \in {<< >>, << TRUE >>}}
StoredPlcLists == {<< >>} \cup {<< a >> : a \in StoredPlcs}
                    \cup {<< a, b >> : a, b \in StoredPlcs}
StoredTagLists == {<< >>} \cup {<< t >> : t \in StoredTags}

\* A gateway beside a gateway_config.db that holds what those calls left.
InitStores ==
    /\ \E plcs \in StoredPlcLists, tags \in StoredTagLists :
          ConstructedBeside(ImportTags(ImportPlcs(EmptyStore, plcs), tags))
    /\ portal_plcs = OneTagPlcs

\* config = export_configuration() on gateway_config.db, then
\* import_configuration(config) on a GatewayDatabase whose file is new.
ExportImport ==
    /\ restored = EmptyStore
    /\ restored' = ImportConfiguration(restored, ExportConfiguration(Store))
    /\ UNCHANGED << clock, main, running, identity, keyring, plc_configs,
                    drivers, store, collector, uploader, supervisor, protocols,
                    push, gateway_config, configuration, tag_history, hist_id,
                    portal_env, history >>

BackupSpec == InitStores /\ [][ExportImport]_vars

\* ------------------------------------------------- one handler and its PLC

\* Everything outside the handler, its PLC and the clock.
gateway == << main, running, identity, keyring, plc_configs, drivers, store,
              collector, uploader, supervisor, database, portal_env, history,
              push >>

\* Calls that counted in self.statistics.
Calls(h) == h.errors + h.reads + h.writes

\* Tags of the handler's PLC: Speed with a scale and an offset, and two
\* elements of the array Arr.
SpeedTags == {DriverTag("v-1", "Speed", -1, 1, 0),
              DriverTag("v-1", "Speed", -1, 2, 1)}
ArrTags == {DriverTag("a-0", "Arr", 0, 1, 0), DriverTag("a-1", "Arr", 1, 1, 0)}
BatchTags == ArrTags \cup {DriverTag("v-1", "Speed", -1, 1, 0)}
TagLists == {<< a >> : a \in BatchTags}
              \cup {pair \in BatchTags \X BatchTags : pair[1] # pair[2]}

\* What the PLC answers for each tag name: an error, or a value the handler
\* decodes to None, a bool, an int or a str; Arr is a list on a Logix PLC.
Answer(error, value) == [error |-> error, value |-> value]
SpeedAnswers == {Answer(TRUE, PyNone)}
                  \cup {Answer(FALSE, value) :
                          value \in {PyNone, PyValue("bool", 1),
                                     PyValue("int", 5), PyValue("str", 0)}}
ArrAnswers(class) ==
    {Answer(TRUE, PyNone),
     Answer(FALSE, IF class = "ethernet-ip"
                   THEN PyList(<< PyValue("int", 1), PyValue("int", 2) >>)
                   ELSE PyValue("int", 1))}
Answers(class, name) ==
    IF name = "Speed" THEN SpeedAnswers ELSE ArrAnswers(class)
\* The PLC as a call for several tags sees it.
Devices(class) ==
    {[name \in {"Speed", "Arr"} |-> IF name = "Speed" THEN s ELSE a] :
        s \in {Answer(TRUE, PyNone), Answer(FALSE, PyValue("int", 5))},
        a \in ArrAnswers(class)}
\* The PLC as far as a call for one tag sees it.
Device(answer) == [name \in {"Speed", "Arr"} |-> answer]

\* The transport is lost under a call: the handler is connected, or connects,
\* and the PLC cannot be reached when the request is sent.
TransportLost(h, up) == Connect(h, up).connected /\ ~up

\* The value the handler decoded before scaling, None when it decoded none.
Decoded(h, up, dev, t) ==
    IF Connect(h, up).connected /\ up /\ ~dev[t.name].error
    THEN Indexed(h, dev[t.name].value, t)
    ELSE PyNone

\* The loop's count of connect() calls that failed in a row, after a call
\* made on the handler outside the loop: a handler that is connected ends
\* the run.
Reached(visits, h) ==
    [visits EXCEPT !.fails = IF h.connected THEN 0 ELSE @]

\* The PLC becomes unreachable, or reachable again.
LinkChanges ==
    /\ link' = ~link
    /\ UNCHANGED << clock, gateway, driver, call, poll >>

\* handler.read_tag(tag).
HandlerReadTag ==
    /\ Calls(driver) < MaxCalls
    /\ \E t \in SpeedTags \cup ArrTags, msg \in TransportErrors :
       \E answer \in Answers(driver.class, t.name) :
         LET dev == Device(answer)
             r == ReadTagOf(driver, link, dev, msg, t)
         IN  /\ driver' = r.handler
             /\ call' = [op |-> "read_tag", before |-> driver, tag |-> t,
                         lost |-> TransportLost(driver, link),
                         raw |-> Decoded(driver, link, dev, t),
                         value |-> r.value]
             /\ poll' = Reached(poll, r.handler)
    /\ UNCHANGED << clock, gateway, link >>

\* handler.write_tag(tag, value).
HandlerWriteTag ==
    /\ Calls(driver) < MaxCalls
    /\ \E accepted \in BOOLEAN, msg \in TransportErrors :
         LET r == WriteTagOf(driver, link, accepted, msg)
         IN  /\ driver' = r.handler
             /\ call' = [op |-> "write_tag", before |-> driver,
                         lost |-> TransportLost(driver, link),
                         value |-> r.value]
             /\ poll' = Reached(poll, r.handler)
    /\ UNCHANGED << clock, gateway, link >>

\* handler.read_batch(tags), beside what read_tag gives for each tag of the
\* list on the same handler and PLC.
HandlerReadBatch ==
    /\ Calls(driver) < MaxCalls
    /\ \E ts \in TagLists, dev \in Devices(driver.class),
          msg \in TransportErrors :
         LET r == ReadBatchOf(driver, link, dev, msg, ts)
         IN  /\ driver' = r.handler
             /\ call' = [op |-> "read_batch", before |-> driver, tags |-> ts,
                         results |-> r.results,
                         each |-> ReadEach(driver, link, dev, msg, ts,
                                           EmptyDict).results]
             /\ poll' = Reached(poll, r.handler)
    /\ UNCHANGED << clock, gateway, link >>

\* One visit of collect_data to the handler's PLC, whose one tag is read by
\* read_tag, and the time.sleep(1) of data_collection_loop that separates it
\* from the next pass; a tick of the clock is a second here.
PollHandler ==
    /\ clock >= poll.wake
    /\ \E t \in SpeedTags, answer \in SpeedAnswers, msg \in TransportErrors :
         LET dev == Device(answer)
             attempted == ~driver.connected
             c == Connect(driver, link)
             r == ReadTagOf(c, link, dev, msg, t)
             visit == [op |-> "collect_data", before |-> driver,
                       attempted |-> attempted, fails |-> poll.fails,
                       waited |-> clock - poll.last]
         IN  IF ~c.connected
             THEN /\ driver' = c
                  /\ poll' = [poll EXCEPT !.wake = clock + 1, !.fails = @ + 1,
                                          !.last = clock]
                  /\ call' = [read |-> FALSE, lost |-> FALSE, value |-> PyNone,
                              buffered |-> FALSE] @@ visit
             ELSE /\ driver' = r.handler
                  /\ poll' = [poll EXCEPT
                                !.wake = clock + 1,
                                !.fails = IF attempted THEN 0 ELSE @,
                                !.last = IF attempted THEN clock ELSE @,
                                !.samples = IF r.value # PyNone THEN @ + 1 ELSE @]
                  /\ call' = [read |-> TRUE, lost |-> TransportLost(c, link),
                              value |-> r.value,
                              buffered |-> r.value # PyNone] @@ visit
    /\ UNCHANGED << clock, gateway, link >>

\* A handler of any class, constructed and not yet connected.
InitDrivers ==
    /\ \E class \in DriverClasses : ConstructedFor(EmptyStore, class)
    /\ portal_plcs = OneTagPlcs

DriverNext ==
    \/ LinkChanges
    \/ HandlerReadTag
    \/ HandlerWriteTag
    \/ HandlerReadBatch
    \/ PollHandler
    \/ Tick

DriverSpec == InitDrivers /\ [][DriverNext]_vars

\* -------------------------------------------------- connect() and its lock

\* connect() on a handler that is not connected: 'with self.lock' is entered
\* and the client library's connect is called, which opens the transport to
\* the PLC.
ConnectCall ==
    /\ Calls(driver) < MaxCalls
    /\ ~driver.lock
    /\ ~driver.connected
    /\ driver' = [driver EXCEPT !.lock = TRUE, !.request = "connect"]
    /\ UNCHANGED << clock, gateway, link, call, poll >>

\* The client library's connect returns or raises; connect() sets
\* self.connected or counts the error, and leaves the with block.
ConnectReturns ==
    /\ driver.request = "connect"
    /\ driver' = [Connect(driver, link) EXCEPT !.lock = FALSE,
                                                !.request = "none"]
    /\ call' = [op |-> "connect", before |-> driver]
    /\ poll' = Reached(poll, driver')
    /\ UNCHANGED << clock, gateway, link >>

LockNext ==
    \/ ConnectCall
    \/ ConnectReturns
    \/ LinkChanges
    \/ Tick

LockSpec == InitDrivers /\ [][LockNext]_vars

\* ------------------------------------------------------- queries that fail

\* get_plcs() and get_tags() of GatewayDatabase on the tables db, and
\* get_buffer_count() of HerculesGateway on the rows buf: raised is TRUE when
\* sqlite3 raises inside the call, whose except clause returns [] or 0.
QueryOps == {"get_plcs", "get_tags", "get_buffer_count"}
QueryOf(op, db, buf, raised) ==
    IF op = "get_plcs" THEN (IF raised THEN << >> ELSE GetPlcs(db))
    ELSE IF op = "get_tags" THEN (IF raised THEN << >> ELSE GetTags(db))
    ELSE (IF raised THEN 0 ELSE Cardinality(Pending(buf)))

\* One of the queries is called; the database file may be unreadable.
StoreQuery ==
    /\ \E op \in QueryOps, raised \in BOOLEAN :
         call' = [op |-> op, raised |-> raised,
                  value |-> QueryOf(op, Store, data_buffer, raised)]
    /\ UNCHANGED << clock, gateway, driver, link, poll >>

QuerySpec == InitStores /\ [][StoreQuery]_vars

\* ---------------------------------------------------------------- claims

\* Executor e goes from the call of upload_data to a request in flight.
SelectStep(e) == upc[e] = "idle" /\ upc'[e] = "post"

\* Executor e leaves upload_data after its request returned.
ResultStep(e) == upc[e] = "responded" /\ upc'[e] \in {"ok", "fail"}

Ascending(rows) ==
    \A i, j \in 1..Len(rows) : i < j => rows[i].timestamp <= rows[j].timestamp

\* C1: every row with uploaded = 1 was in the payload of an earlier data POST
\* whose response status was 200; no other response and no exception ever
\* sets the flag.
C1_UploadedOnlyAfter200 ==
    \A r \in data_buffer : r.uploaded => r.id \in acked

\* C1 witness: one row is marked after its 200 while another one, whose POST
\* failed, is still pending.
C1_Witness ==
    /\ \E r \in data_buffer : r.uploaded
    /\ \E r \in data_buffer : ~r.uploaded /\ r.id \in failed

\* C2: no step of the gateway removes a row that has uploaded = 0.
C2_PendingRowsNeverDeleted ==
    [][\A r \in data_buffer :
          ~r.uploaded => \E q \in data_buffer' : q.id = r.id]_vars

\* C2 witness: the compactor has deleted a row while a pending row older than
\* the retention is still in the buffer.
C2_Witness ==
    /\ \E id \in 1..(next_id - 1) : \A r \in data_buffer : r.id # id
    /\ \E r \in data_buffer : ~r.uploaded /\ r.created_at < clock - Retention

C5_BacklogDrainsOldestFirst ==
    /\ \A i \in 1..MaxRows :
          (portal = "up" /\ main = "running" /\ Truthy(api_key)
             /\ i \in PendingIds(data_buffer))
          ~> (\E r \in data_buffer : r.id = i /\ r.uploaded)
    /\ [][(ResultStep("loop") /\ response["loop"] = "200") =>
             \A r \in Pending(data_buffer') :
                 \A i \in 1..Len(batch["loop"]) :
                     batch["loop"][i].timestamp <= r.timestamp]_vars

\* C5 witness: with the endpoint recovered, a full batch of the backlog has
\* been answered while a younger sample is still pending.
C5_Witness ==
    /\ portal = "up"
    /\ upc["loop"] = "responded"
    /\ Len(batch["loop"]) = BatchLimit
    /\ \E r \in Pending(data_buffer) : r.id \notin Ids(batch["loop"])

\* C6: a restart keeps every pending row in data_buffer with uploaded = 0, and
\* the rows whose upload had failed before the restart are in the batch of
\* every upload cycle after it, as long as they are pending.
C6_FailedSampleSurvivesRestart ==
    [][/\ main' = "new" =>
            /\ \A r \in Pending(data_buffer) : r \in data_buffer'
            /\ failed \subseteq PendingIds(data_buffer')
       /\ \A e \in Executors :
            SelectStep(e) => carried \subseteq Ids(batch'[e])]_vars

\* C6 witness: after a restart, a sample whose upload failed before it is in
\* the batch in flight.
C6_Witness ==
    /\ carried # {}
    /\ upc["loop"] = "post"
    /\ carried \subseteq Ids(batch["loop"])

C8_NothingPendingNoRequest ==
    [][\A e \in Executors :
          (AtUpload(e) /\ Truthy(api_key) /\ Pending(data_buffer) = {}
             /\ upc'[e] # upc[e]) =>
              /\ upc'[e] = "ok"
              /\ batch'[e] = << >>]_vars

\* C8 witness: upload_data has returned success although no sample was ever
\* buffered.
C8_Witness ==
    /\ upc["loop"] = "ok"
    /\ next_id = 1
    /\ Truthy(api_key)

\* C9: a batch holds the pending samples up to the limit, and they are the
\* ones with the smallest timestamps: with exactly the limit pending one POST
\* carries all; with one more, the youngest is left for the next cycle.
C9_BatchIsOldestUpToLimit ==
    [][\A e \in Executors :
          SelectStep(e) =>
              /\ Len(batch'[e]) = Min(BatchLimit, Cardinality(Pending(data_buffer)))
              /\ Ids(batch'[e]) \subseteq PendingIds(data_buffer)
              /\ \A r \in Pending(data_buffer) :
                     r.id \notin Ids(batch'[e]) =>
                         \A i \in 1..Len(batch'[e]) :
                             batch'[e][i].timestamp <= r.timestamp]_vars

\* C9 witness: of limit + 1 samples, the oldest limit have been acknowledged
\* and the remaining one is alone in the batch in flight.
C9_Witness ==
    /\ next_id = BatchLimit + 2
    /\ acked = 1..BatchLimit
    /\ upc["loop"] = "post"
    /\ Ids(batch["loop"]) = {BatchLimit + 1}

\* C10: activate() with a non-empty api_key and gateway_id in the keyring
\* adopts them and returns success without an activation request.
C10_StoredCredentialsNoRequest ==
    [][(main = "new" /\ main' # "new" /\ keyring.ok
          /\ Truthy(keyring.api_key) /\ Truthy(keyring.gateway_id)) =>
           /\ main' = "activated"
           /\ api_key' = keyring.api_key
           /\ gateway_id' = keyring.gateway_id]_vars

\* C10 witness: a restarted gateway is activated from the keyring, with no
\* endpoint discovered by an activation response.
C10_Witness ==
    /\ main = "activated"
    /\ keyring.ok /\ Truthy(keyring.api_key) /\ Truthy(keyring.gateway_id)
    /\ api_key = keyring.api_key
    /\ endpoints = "empty"

\* C11: once the portal has answered an activation POST with a 4xx status,
\* handle_failure is not invoked, no further activation request is sent and
\* no subsystem thread is started.
C11_Activation4xxIsTerminal ==
    [][rejected =>
          /\ restart_count' = restart_count
          /\ main' # main => main' \notin {"new", "activating", "running"}]_vars

\* C11 witness: the activation code was refused and run() is at its prompt,
\* under a supervisor that has restarted nothing yet.
C11_Witness ==
    /\ rejected
    /\ main = "prompt"
    /\ restart_count = 0

\* C12: when an activation POST has failed with a 5xx status or a transport
\* error and the portal answers 200 from then on, the gateway eventually is
\* activated.
C12_ActivationRetriedUntilSuccess ==
    (main = "prompt" /\ ~rejected /\ portal = "up")
       ~> (main \in {"activated", "running"})

\* C12 witness: the activation failed without a 4xx, and the portal has
\* recovered while run() is at its prompt.
C12_Witness ==
    /\ main = "prompt"
    /\ ~rejected
    /\ portal = "up"
    /\ restart_count > 0

\* C13: sync_with_portal leaves the stored config_version strictly greater
\* than it was, and no operation of the store lowers it.
C13_ConfigVersionIncreases ==
    [][/\ (gateway_config.present /\ \E payload \in PortalPayloads :
                                         SyncWithPortal(payload))
              => gateway_config'.config_version > gateway_config.config_version
       /\ (gateway_config.present /\ gateway_config'.present)
              => gateway_config'.config_version >= gateway_config.config_version]_vars

\* C13 witness: a gateway configuration is stored and a portal sync has
\* written its last_sync.
C13_Witness ==
    /\ gateway_config.present
    /\ gateway_config.last_sync >= 0

\* C14: sync_with_portal leaves every plc_devices row with local_only = true
\* as it is, local_only included, whatever the payload holds under its id.
C14_LocalOnlyUntouchedBySync ==
    [][(\E payload \in PortalPayloads : SyncWithPortal(payload)) =>
          \A p \in PlcIds :
              plc_devices[p].local_only => plc_devices'[p] = plc_devices[p]]_vars

\* C14 witness: a device stored locally with local_only = true beside a
\* device that came from the portal.
C14_Witness ==
    /\ plc_devices["plc-1"].local_only
    /\ ~plc_devices["plc-1"].portal_sync
    /\ plc_devices["plc-2"].portal_sync
    /\ gateway_config.last_sync >= 0

\* C15: this process has constructed at most one handler for each PLC id, and
\* the id that has one gets no other.
C15_OneHandlerPerPlc ==
    \A p \in PlcIds :
        /\ instances[p] <= 1
        /\ instances[p] = 1 <=> plc_handlers[p] # NoHandler

\* C15 witness: a PLC that has a handler is scanned again, after a sync that
\* changed its connection_config.
C15_Witness ==
    /\ scan > 0
    /\ scan_list = ChangedPlcs
    /\ scan_list[scan_plc].id = "plc-1"
    /\ instances["plc-1"] = 1
    /\ plc_handlers["plc-1"].conn = "a"

\* A step of the collection thread inside handler.read_tag.
ReadStep ==
    /\ scan > 0 /\ data_point = NoPoint
    /\ << scan_list, scan_plc, scan, data_point >>
          # << scan_list', scan_plc', scan', data_point' >>

\* C16: a read in a pass over the current configuration goes through a
\* handler constructed from that PLC's current protocol and
\* connection_config.
C16_ChangedPlcGetsNewDriver ==
    [][(ReadStep /\ scan_list = plc_configs) =>
          plc_handlers[scan_list[scan_plc].id] = NewHandler(scan_list[scan_plc])]_vars

\* C16 witness: in a pass begun after the sync, a read of the PLC whose
\* connection_config changed is about to be made.
C16_Witness ==
    /\ scan > 0 /\ data_point = NoPoint
    /\ plc_configs = ChangedPlcs
    /\ scan_list = plc_configs
    /\ scan_list[scan_plc].id = "plc-1"
    /\ plc_handlers["plc-1"] # NoHandler

\* C17: a sample is buffered only for a PLC that the configuration in force
\* has enabled, and only such a PLC has a handler.
C17_RemovedPlcIsSilent ==
    [][/\ next_id' # next_id =>
             OwnerOf(data_point.tag_id) \in EnabledIds(plc_configs)
       /\ \A p \in PlcIds :
             plc_handlers'[p] # NoHandler => p \in EnabledIds(plc_configs')]_vars

\* C17 witness: a pass over a list with plc-1 has captured a sample of it
\* while the configuration in force has no plc-1 any more.
C17_Witness ==
    /\ data_point # NoPoint
    /\ OwnerOf(data_point.tag_id) = "plc-1"
    /\ plc_configs = RemovedPlcs
    /\ scan_list # plc_configs

\* The collection thread is inside a read of a stalled PLC.
Blocked ==
    /\ scan > 0 /\ data_point = NoPoint
    /\ scan_list[scan_plc].id \in stalled

\* An enabled PLC that is not stalled is still to be scanned in this pass.
OthersWaiting ==
    \E j \in (scan_plc + 1)..Len(scan_list) :
        scan_list[j].enabled /\ scan_list[j].id \notin stalled

\* C18: while a read of one PLC is stalled, the scan of the other enabled
\* PLCs can go on.
C18_StalledPlcDelaysNoOther ==
    (Blocked /\ OthersWaiting) => ENABLED (CollectData \/ ScanPlc \/ ReadTag \/ BufferData)

\* C18 witness: plc-1 is stalled inside a read while plc-2 waits behind it.
C18_Witness ==
    /\ Blocked
    /\ OthersWaiting
    /\ scan_list[scan_plc].id = "plc-1"

\* C19: a collection pass does not end before its last enabled PLC: no error
\* at one entry skips the enabled entries after it.
C19_ErrorsStayWithinOnePlc ==
    [][(scan_plc > 0 /\ scan_plc' = 0) =>
          \A j \in (scan_plc + 1)..Len(scan_list) : ~scan_list[j].enabled]_vars

\* C19 witness: a pass is at a first entry that has no 'protocol' key, with
\* an enabled PLC after it.
C19_Witness ==
    /\ scan_plc = 1 /\ scan = 0
    /\ scan_list = MalformedPlcs
    /\ scan_list[2].enabled

\* C20: tag_history holds at most the limit of rows, and they are the most
\* recently inserted ones.
C20_HistoryKeepsNewest ==
    /\ Cardinality(tag_history) <= HistoryLimit
    /\ \A r \in tag_history : r.id >= hist_id - HistoryLimit

\* C20 witness: more rows than the limit were inserted within one clock tick
\* and the table is full.
C20_Witness ==
    /\ hist_id > HistoryLimit + 1
    /\ Cardinality(tag_history) = HistoryLimit
    /\ \A r \in tag_history : r.timestamp = clock

\* The step is an upsert_plc or upsert_tag call that wrote an entity row.
UpsertWrote ==
    /\ UpsertPlc \/ UpsertTag
    /\ plc_devices' # plc_devices \/ tag_definitions' # tag_definitions

\* C21: an upsert_plc or upsert_tag call that writes its entity row appends,
\* in the same step, exactly one config_audit record after the records already
\* there, and that record names the entity with its prior and its new value
\* and a source of 'portal' or 'local'.
C21_UpsertsAreAudited ==
    [][UpsertWrote =>
          /\ Len(config_audit') = Len(config_audit) + 1
          /\ SubSeq(config_audit', 1, Len(config_audit)) = config_audit
          /\ LET rec == config_audit'[Len(config_audit')]
             IN  /\ rec.source \in {"portal", "local"}
                 /\ \/ /\ rec.entity_type = "plc"
                       /\ rec.old_value = plc_devices[rec.entity_id].conn
                       /\ rec.new_value = plc_devices'[rec.entity_id].conn
                    \/ /\ rec.entity_type = "tag"
                       /\ tag_definitions'[rec.entity_id] # NoTag]_vars

\* C21 witness: a PLC was created and then updated by upserts, each with its
\* audit record, and a tag row has been written.
C21_Witness ==
    /\ Len(config_audit) = 2
    /\ config_audit[1].action = "create"
    /\ config_audit[2].action = "update"
    /\ config_audit[2].old_value = config_audit[1].new_value
    /\ \E t \in DbTagIds : tag_definitions[t] # NoTag

\* C22: import_configuration(export_configuration()) into an empty store
\* leaves that store with the PLC devices and the tag definitions of the
\* exported one, portal_sync and local_only included.
C22_ExportImportRoundTrip ==
    [][ExportImport =>
          /\ restored'.plc_devices = plc_devices
          /\ restored'.tag_definitions = tag_definitions]_vars

\* C22 witness: a store with a local-only PLC and a tag has been exported and
\* imported, and the devices came out as they were.
C22_Witness ==
    /\ restored # EmptyStore
    /\ restored.plc_devices = plc_devices
    /\ \E p \in PlcIds : plc_devices[p].local_only /\ ~plc_devices[p].portal_sync
    /\ \E t \in DbTagIds : tag_definitions[t] # NoTag

\* The failures handled at or after time now - restart_window, the one being
\* handled included: those of the 60-minute window that ends now.
InWindow(times, now) ==
    Cardinality({i \in 1..Len(times) : now - times[i] <= restart_window})

\* C23: handle_failure restarts the gateway when the failures of the window
\* that ends at this failure number at most max_restarts, and stops the
\* service exactly when they number more.
C23_RestartsWithinRollingWindow ==
    [][HandleFailure =>
          (main' = "new" <=> InWindow(failures', clock) <= max_restarts)]_vars

\* C23 witness: a failure was handled by a restart after an earlier failure
\* had left the window.
C23_Witness ==
    /\ Len(failures) >= 2
    /\ main = "new"
    /\ InWindow(failures, clock) < Len(failures)

\* C24: a sample is buffered only while the final upload_data of a shutdown
\* has not started, and the process ends a shutdown, by Ctrl+C or by a stop
\* of the service, only after that one final upload_data has returned.
C24_FinalUploadFollowsLastSample ==
    [][/\ next_id' > next_id => upc["final"] = "idle"
       /\ (ShutdownComplete \/ ServiceStop) => upc["final"] \in {"ok", "fail"}]_vars

\* C24 witness: a shutdown is in progress whose final upload has posted a
\* batch of buffered samples.
C24_Witness ==
    /\ main = "shutdown"
    /\ ~running
    /\ upc["final"] = "post"
    /\ batch["final"] # << >>

\* C25: in every driver, a read_tag or write_tag call that fails because the
\* transport to the PLC is lost leaves the handler with connected = False, so
\* that the next call first goes through connect().
C25_TransportLossClearsConnected ==
    (call.op \in {"read_tag", "write_tag"} /\ call.lost) => ~driver.connected

\* C25 witness: a connected handler has lost its transport under read_tag and
\* is left not connected.
C25_Witness ==
    /\ call.op = "read_tag"
    /\ call.lost
    /\ call.before.connected
    /\ ~driver.connected

\* C26: read_batch returns a dictionary with one entry per tag id, and each
\* entry equals what read_tag returns for that tag on the same handler and
\* PLC; this covers tags that share a base name with different array
\* indices, a tag whose read fails, and a handler that cannot connect.
C26_BatchEqualsSequentialReads ==
    call.op = "read_batch" => call.results = call.each

\* C26 witness: a batch of two tags, of which the PLC answers one with an
\* error, gives the dictionary the two read_tag calls give.
C26_Witness ==
    /\ call.op = "read_batch"
    /\ Len(call.tags) = 2
    /\ call.results = call.each
    /\ \E a, b \in DOMAIN call.results :
         call.results[a] = PyNone /\ call.results[b] # PyNone

\* C27: when collect_data reads a tag through a handler that reports
\* connected = True and read_tag returns None although the transport is up,
\* no sample is buffered, the handler's error counter has grown by exactly
\* one, and connected is still True.
C27_NullReadCountsOneError ==
    (/\ call.op = "collect_data"
     /\ call.before.connected
     /\ ~call.lost
     /\ call.value = PyNone)
    => /\ ~call.buffered
       /\ driver.errors = call.before.errors + 1
       /\ driver.connected

\* C27 witness: the PLC answers the read with an error; the connected handler
\* returns None, counts one error and stays connected, and nothing is
\* buffered.
C27_Witness ==
    /\ call.op = "collect_data"
    /\ call.before.connected
    /\ ~call.lost
    /\ call.value = PyNone
    /\ poll.samples = 0
    /\ driver.errors = call.before.errors + 1
    /\ driver.connected

\* C28: a query of the local store that fails inside sqlite3 returns
\* something its caller can tell from a successful result; in particular its
\* result is not the one the same query gives on a store that is merely
\* empty.
C28_FailureDiffersFromSuccess ==
    (call.op \in QueryOps /\ call.raised)
    => call.value # QueryOf(call.op, EmptyStore, InitDatabase({}), FALSE)

\* C28 witness: get_plcs fails on a store that holds PLC devices.
C28_Witness ==
    /\ call.op = "get_plcs"
    /\ call.raised
    /\ GetPlcs(Store) # << >>

\* The delay the backoff asks for before the connect() that follows k failed
\* ones: 1, 2, 4, ... seconds, at most 60.
Backoff(k) == Min(2 ^ (k - 1), 60)

\* C29: when collect_data calls connect() on a handler whose last k >= 1
\* connect() calls failed in a row, at least Backoff(k) seconds have passed
\* since the latest of them.
C29_ConnectWaitsForBackoff ==
    (call.op = "collect_data" /\ call.attempted /\ call.fails >= 1)
    => call.waited >= Backoff(call.fails)

\* C29 witness: connect() is called again one second after the first failed
\* connect().
C29_Witness ==
    /\ call.op = "collect_data"
    /\ call.attempted
    /\ call.fails = 1
    /\ call.waited = Backoff(1)

\* C30: read_tag applies the tag's scale and offset only to a numeric decoded
\* value; a value decoded as a bool or as a str is returned as decoded,
\* whatever the scale and offset are.
C30_ScalingSparesBoolAndStr ==
    (call.op = "read_tag" /\ call.raw.type \in {"bool", "str"})
    => PyEq(call.value, call.raw)

\* C30 witness: a str read through a tag with scale 2 and offset 1 is
\* returned as decoded.
C30_Witness ==
    /\ call.op = "read_tag"
    /\ call.raw.type = "str"
    /\ call.tag.scale = 2
    /\ call.value = call.raw

\* C32: a data POST contains a row only if every earlier POST that contained
\* the row has ended, and ended without a 200: the batch an upload_data
\* execution builds holds no acknowledged row and no row of a request that
\* another execution has in flight.
C32_NoRowPostedWhileInFlight ==
    [][\A e \in Executors :
         (upc[e] = "idle" /\ upc'[e] = "post")
         => /\ Ids(batch'[e]) \cap acked = {}
            /\ \A f \in Executors \ {e} :
                 upc[f] \in {"post", "responded"}
                 => Ids(batch'[e]) \cap Ids(batch[f]) = {}]_vars

\* C32 witness: a row whose earlier POST ended without a 200 is in the batch
\* of a request, and no other request is in flight.
C32_Witness ==
    \E e \in Executors :
      /\ upc[e] = "post"
      /\ Ids(batch[e]) \cap failed # {}
      /\ \A f \in Executors \ {e} : upc[f] \notin {"post", "responded"}

\* C33: an upload_data execution that ends with a 200 leaves data_buffer with
\* the same rows, of which those whose ids were in the POSTed batch have
\* uploaded = 1 and are otherwise unchanged, and all others, among them the
\* rows buffered since the batch was selected, are unchanged.
C33_UpdateTouchesOnlyTheBatch ==
    [][\A e \in Executors :
         (upc[e] = "responded" /\ upc'[e] = "ok")
         => /\ {r.id : r \in data_buffer'} = {r.id : r \in data_buffer}
            /\ \A r \in data_buffer :
                 IF r.id \in Ids(batch[e])
                 THEN [r EXCEPT !.uploaded = TRUE] \in data_buffer'
                 ELSE r \in data_buffer']_vars

\* C33 witness: an upload has been acknowledged and marked, and a row that
\* was buffered after the acknowledged ones is still pending.
C33_Witness ==
    \E e \in Executors : \E r, q \in data_buffer :
      /\ upc[e] = "ok"
      /\ r.uploaded /\ r.id \in acked
      /\ ~q.uploaded /\ q.id > r.id

\* reconnect_plcs(): plc_config['name'] and plc_config['protocol'] raise
\* KeyError on an entry that lacks the key, inside sync_configuration's try.
ReconnectPlcsRaises(list) ==
    \E i \in 1..Len(list) : list[i].protocol = None

\* C34: a sync_configuration call that returns False leaves self.plc_configs
\* as it was: whenever a call changes plc_configs, which it does in its 200
\* branch only, reconnect_plcs does not raise on the new list and the call
\* returns True.
C34_FailedSyncKeepsConfiguration ==
    [][((ConfigSyncLoop \/ StartThreads) /\ plc_configs' # plc_configs)
       => ~ReconnectPlcsRaises(plc_configs')]_vars

\* C34 witness: the running gateway holds a list on which reconnect_plcs
\* raised, so the sync_configuration call that assigned it returned False.
C34_Witness ==
    /\ main = "running"
    /\ ReconnectPlcsRaises(plc_configs)

\* C35: once stop() has cleared the running flag of the gateway, handle_failure
\* does not construct and run a new HerculesGateway.
C35_NoRestartAfterStop ==
    [][~running => ~(HandleFailure /\ main' = "new")]_vars

\* C35 witness: stop() has been called on a gateway that handle_failure had
\* started again, and that gateway's activation has failed in turn.
C35_Witness ==
    /\ ~running
    /\ main = "prompt"
    /\ restart_count >= 1

\* C31: no handler holds its own lock while a transport-level request of its
\* client library is in progress.
C31_NoLockAcrossNetworkCall ==
    ~(driver.lock /\ driver.request # "none")

\* C31 witness: connect() has returned with the handler connected and its
\* lock released.
C31_Witness ==
    /\ call.op = "connect"
    /\ driver.connected
    /\ ~driver.lock
    /\ driver.request = "none"

\* C36: when shutdown() has completed (its final upload_data() has returned),
\* no websocket connection of the gateway is open.
C36_NoSocketAfterShutdown ==
    (main = "shutdown" /\ upc["final"] \in {"ok", "fail"}) => ws # "open"

\* C36 witness: shutdown() has completed after closing a connection that
\* connect_websocket() had opened, with no on_close callback in progress.
C36_Witness ==
    /\ main = "shutdown"
    /\ upc["final"] \in {"ok", "fail"}
    /\ ws = "closed"
    /\ on_close = "idle"

\* C39: whenever activate() has returned True, on the fresh-activation path
\* and on the stored-credentials path alike, the endpoints discovered at
\* activation are available, so that the connect_websocket() of run() opens
\* the push channel (an activation answered with an empty api_key aside).
C39_StartOpensPushChannel ==
    [][(StartThreads /\ Truthy(api_key))
          => (endpoints = "discovered" /\ ws' = "open")]_vars

\* C39 witness: the gateway runs after an activation request answered 200,
\* with the endpoints of the response and the push channel open.
C39_Witness ==
    /\ main = "running"
    /\ endpoints = "discovered"
    /\ Truthy(api_key)
    /\ ws = "open"
    /\ on_close = "idle"
    /\ running

\* C37: save_gateway_config on an existing row of gateway_config leaves the
\* columns it does not name, config_version and last_sync among them, at
\* their previous values.
C37_SaveKeepsUnnamedColumns ==
    [][(SaveGatewayConfig /\ gateway_config.present)
          => /\ gateway_config'.config_version = gateway_config.config_version
             /\ gateway_config'.last_sync = gateway_config.last_sync]_vars

\* C37 witness: the row saved by save_gateway_config carries the last_sync
\* written by a later sync_with_portal, at a time when it can be saved again.
C37_Witness ==
    /\ gateway_config.present
    /\ gateway_config.gateway_id = "gw-43"
    /\ gateway_config.last_sync >= 1
    /\ gateway_config.last_sync <= clock

\* upsert_plc or upsert_tag commits on a row that exists.
UpsertOfExisting ==
    \/ /\ UpsertPlc
       /\ \E p \in PlcIds : /\ plc_devices[p] # NoDevice
                            /\ Len(config_audit') > Len(config_audit)
                            /\ config_audit'[Len(config_audit')].entity_id = p
    \/ /\ UpsertTag
       /\ \E t \in DbTagIds : /\ tag_definitions[t] # NoTag
                              /\ tag_definitions'[t] # tag_definitions[t]

\* C38: an upsert of a PLC or of a tag that already exists keeps the runtime
\* columns of its row: the status written by update_plc_status, the
\* last_value written by update_tag_value.
C38_UpsertKeepsRuntimeColumns ==
    [][UpsertOfExisting
          => /\ \A p \in PlcIds : plc_devices'[p].status = plc_devices[p].status
             /\ \A t \in DbTagIds : tag_definitions'[t].last_value
                                       = tag_definitions[t].last_value]_vars

\* C38 witness: a PLC that has been upserted twice (both audit records name
\* it, the second as an update) carries a status written by
\* update_plc_status after the second upsert.
C38_Witness ==
    /\ Len(config_audit) = 2
    /\ config_audit[1].entity_id = "plc-1"
    /\ config_audit[2].entity_id = "plc-1"
    /\ config_audit[2].action = "update"
    /\ plc_devices["plc-1"].status = "connected"

\* The tag half of C38 alone, for HistorySpec.
TagUpsertKeepsLastValue ==
    [][UpsertTag => \A t \in DbTagIds :
          tag_definitions[t] # NoTag
             => tag_definitions'[t].last_value
                   = tag_definitions[t].last_value]_vars

\* C40: every data point collect_data has put on self.data_queue is
\* eventually taken off it, so that the queue is empty again.
C40_QueueDrains ==
    (data_queue > 0) ~> (data_queue = 0)

\* C40 witness: two data points have been put on the queue and buffered, and
\* the upload loop has had both acknowledged by the portal.
C40_Witness ==
    /\ main = "running"
    /\ data_queue = 2
    /\ data_point = NoPoint
    /\ acked = {1, 2}

====
